---------------------------- MODULE Spec2Model ----------------------------
(***************************************************************************)
(* Model of the xarch hardware-intrinsic importer                          *)
(* (src/coreclr/jit/hwintrinsicxarch.cpp).                                 *)
(*                                                                         *)
(* The importer keeps an expression stack (verCurrentState.esStack).  A    *)
(* call of Compiler::impSpecialIntrinsic either builds an IR node from     *)
(* operands it pops off that stack, or declines by returning nullptr.      *)
(* The model keeps the stack before and after the call, the node returned  *)
(* and the sequence of stack operations (spill / pop) the call performed,  *)
(* and the intrinsics the call handed itself over to.                      *)
(* Compiler::impNonConstFallback is modelled the same way.  A call of one  *)
(* of the lookups of HWIntrinsicInfo leaves its arguments and its outcome. *)
(***************************************************************************)
EXTENDS Integers, Sequences, FiniteSets, TLC

VARIABLES
    targetX86,      \* build flavour: TRUE when TARGET_X86 is defined
    pc,             \* "idle": between calls, "done": the call returned or stopped at an assert
    callee,         \* the function called, "none" between calls
    intrinsic,      \* NamedIntrinsic of the call
    numArgs,        \* sig->numArgs
    simdBaseType,   \* JitType2PreciseVarType(simdBaseJitType), TYP_UNKNOWN when simdSize = 0
    simdSize,       \* simdSize argument
    isaFlags,       \* instruction sets the compilation supports
    regLen,         \* getSIMDVectorRegisterByteLength()
    stackBefore,    \* verCurrentState.esStack when the call was made
    esStack,        \* verCurrentState.esStack when the call returned
    retNode,        \* the GenTree* returned (k = "null" for nullptr)
    trace,          \* stack operations of the call, in program order
    nested,         \* the intrinsics impSpecialIntrinsic called itself with, outermost first
    query,          \* arguments of a lookup call
    answer          \* outcome of a lookup call: <<returned, value>>, returned = FALSE for an assert

vars == <<targetX86, pc, callee, intrinsic, numArgs, simdBaseType, simdSize, isaFlags, regLen,
          stackBefore, esStack, retNode, trace, nested, query, answer>>

---------------------------------------------------------------------------
(* Bounds of the model *)

\* operands already on the expression stack below the call's arguments
NumBelow == 1

\* constant index operands tried for GetElement / WithElement run from
\* -IndexSlack to laneCount - 1 + IndexSlack
IndexSlack == 1

---------------------------------------------------------------------------
(* var_types helpers *)

IntegralTypes ==
    {"TYP_BYTE", "TYP_UBYTE", "TYP_SHORT", "TYP_USHORT", "TYP_INT", "TYP_UINT", "TYP_LONG", "TYP_ULONG"}

FloatingTypes == {"TYP_FLOAT", "TYP_DOUBLE"}

ArithmeticTypes == IntegralTypes \cup FloatingTypes

genTypeSize(t) ==
    CASE t \in {"TYP_BYTE", "TYP_UBYTE"} -> 1
      [] t \in {"TYP_SHORT", "TYP_USHORT"} -> 2
      [] t \in {"TYP_INT", "TYP_UINT", "TYP_FLOAT"} -> 4
      [] t \in {"TYP_LONG", "TYP_ULONG", "TYP_DOUBLE"} -> 8
      [] OTHER -> 0

varTypeIsFloating(t) == t \in FloatingTypes

varTypeIsIntegral(t) == t \in IntegralTypes

varTypeIsUnsigned(t) == t \in {"TYP_UBYTE", "TYP_USHORT", "TYP_UINT", "TYP_ULONG"}

varTypeIsByte(t) == t \in {"TYP_BYTE", "TYP_UBYTE"}

varTypeIsLong(t) == t \in {"TYP_LONG", "TYP_ULONG"}

varTypeIsSmallInt(t) == t \in {"TYP_BYTE", "TYP_UBYTE", "TYP_SHORT", "TYP_USHORT"}

getSIMDVectorLength(size, t) == size \div genTypeSize(t)

XMM_REGSIZE_BYTES == 16

YMM_REGSIZE_BYTES == 32

---------------------------------------------------------------------------
(* Capability oracle *)

compExactlyDependsOn(c, isa) == isa \in c.isaFlags

compOpportunisticallyDependsOn(c, isa) == isa \in c.isaFlags

compIsaSupportedDebugOnly(c, isa) == isa \in c.isaFlags

IsBaselineVector512IsaSupported(c) == "InstructionSet_AVX512F" \in c.isaFlags

IsBaselineVector512IsaSupportedDebugOnly(c) == IsBaselineVector512IsaSupported(c)

getSIMDVectorRegisterByteLength(c) == c.regLen

---------------------------------------------------------------------------
(* GenTree nodes.  Every node is a record of the same shape: k is the kind *)
(* of node ("null" for nullptr, "arg" for an operand the caller pushed,    *)
(* otherwise the constructor that built it), oper its operator or          *)
(* intrinsic id, ops its operands in operand order.                        *)

Node(k, oper, ops, base, size) ==
    [size |-> size, k |-> k, oper |-> oper, ops |-> ops, base |-> base,
     id |-> 0, cns |-> "none", ival |-> 0, vval |-> <<>>, addr |-> 0, tmp |-> FALSE]

NullNode == Node("null", "", <<>>, "TYP_UNKNOWN", 0)

\* the id-th source argument of the call, as pushed by the caller;
\* cns: "none" (not a constant), "int", "flt", "vec"; ival / vval its value;
\* addr: the memory slot it is read from, 0 when it is not a memory read
Arg(id, cns, ival, vval) ==
    [size |-> 0, k |-> "arg", oper |-> "", ops |-> <<>>, base |-> "TYP_UNKNOWN",
     id |-> id, cns |-> cns, ival |-> ival, vval |-> vval, addr |-> 0, tmp |-> FALSE]

\* areArgumentsContiguous(op1, op2): op2 is read from the slot right after op1's
areArgumentsContiguous(op1, op2) == (op1.addr > 0) /\ (op2.addr = op1.addr + 1)

\* a GT_CAST whose operand is a TYP_BYREF, as pushed for an address argument
CastOfByref(id) == [Arg(id, "none", 0, <<>>) EXCEPT !.k = "cast_byref"]

gtNewIconNode(v) ==
    [Node("gtNewIconNode", "", <<>>, "TYP_INT", 0) EXCEPT !.cns = "int", !.ival = v]

IsIntegralConst(n) == n.cns = "int"

IsCnsFltOrDbl(n) == n.cns = "flt"

OperIsConst(n) == n.cns # "none"

IsVectorConst(n) == n.cns = "vec"

IsCnsVec(n) == n.cns = "vec"

---------------------------------------------------------------------------
(* The expression stack.  A frame is the stack together with the stack     *)
(* operations performed so far.                                            *)

Frame(c) == [stack |-> c.stack, trace |-> <<>>]

esStackDepth(f) == Len(f.stack)

impStackTop(f, n) == f.stack[Len(f.stack) - n]

impPopStack(f) ==
    [val |-> f.stack[Len(f.stack)],
     f   |-> [stack |-> SubSeq(f.stack, 1, Len(f.stack) - 1),
              trace |-> Append(f.trace, [ev |-> "pop", slot |-> Len(f.stack)])]]

impSIMDPopStack(f) == impPopStack(f)

getArgForHWIntrinsic(f) == impPopStack(f)

\* impSpillSideEffect(true, slot): the entry at 0-based index slot is
\* evaluated into a temporary, which takes its place on the stack
impSpillSideEffect(f, slot) ==
    [stack |-> [f.stack EXCEPT ![slot + 1].tmp = TRUE],
     trace |-> Append(f.trace, [ev |-> "spill", slot |-> slot + 1])]

\* outcomes of a call
Ret(node, f) ==
    [ok |-> TRUE, retNode |-> node, stack |-> f.stack, trace |-> f.trace, nested |-> <<>>]

ContractFailure(f) ==
    [ok |-> FALSE, retNode |-> NullNode, stack |-> f.stack, trace |-> f.trace, nested |-> <<>>]

\* assert(cond) of the source: a call that violates it is a contract failure
Require(cond, f, out) == IF cond THEN out ELSE ContractFailure(f)


\* Pop2 with the operands taken the other way round: the top becomes op1
Pop2_topIsOp1(f) ==
    LET p1 == impPopStack(f)
        p2 == impPopStack(p1.f)
    IN  [op1 |-> p1.val, op2 |-> p2.val, f |-> p2.f]

\* "op2 = pop; op1 = pop": the last source argument is on top
Pop2(f) ==
    LET p2 == impPopStack(f)
        p1 == impPopStack(p2.f)
    IN  [op1 |-> p1.val, op2 |-> p2.val, f |-> p1.f]

\* "op3 = pop; op2 = pop; op1 = pop"
Pop3(f) ==
    LET p3 == impPopStack(f)
        p  == Pop2(p3.f)
    IN  [op1 |-> p.op1, op2 |-> p.op2, op3 |-> p3.val, f |-> p.f]

---------------------------------------------------------------------------
(* The instruction-set and immediate lookups (HWIntrinsicInfo and the      *)
(* static helpers in front of it).  A lookup either returns a value or     *)
(* stops at an assert.  The outcome is the pair <<returned, value>>.       *)

Returns(v) == <<TRUE, v>>

AssertionFailure == <<FALSE, "assert">>

\* "assert(!...); return v;": the call stops at the assert, and v is what the
\* return statement behind it gives where asserts are compiled out
AssertThenReturns(v) == <<FALSE, v>>

\* the call returned, it did not stop at an assert
Succeeded(outcome) == outcome[1]

\* the value a call returned
ValueOf(outcome) == outcome[2]

\* no lookup was called
NoAnswer == <<TRUE, "none">>

\* a null const char*
NullName == "<nullptr>"

\* the table with InstructionSet_AVX512F_VL sent to the counterpart of InstructionSet_AVX512F
X64VersionOfIsa_sharedCounterpart(isa) ==
    CASE isa = "InstructionSet_X86Base" -> "InstructionSet_X86Base_X64"
      [] isa = "InstructionSet_SSE" -> "InstructionSet_SSE_X64"
      [] isa = "InstructionSet_SSE2" -> "InstructionSet_SSE2_X64"
      [] isa = "InstructionSet_SSE3" -> "InstructionSet_SSE3_X64"
      [] isa = "InstructionSet_SSSE3" -> "InstructionSet_SSSE3_X64"
      [] isa = "InstructionSet_SSE41" -> "InstructionSet_SSE41_X64"
      [] isa = "InstructionSet_SSE42" -> "InstructionSet_SSE42_X64"
      [] isa = "InstructionSet_AVX" -> "InstructionSet_AVX_X64"
      [] isa = "InstructionSet_AVX2" -> "InstructionSet_AVX2_X64"
      [] isa = "InstructionSet_AVX512BW" -> "InstructionSet_AVX512BW_X64"
      [] isa = "InstructionSet_AVX512BW_VL" -> "InstructionSet_AVX512BW_VL_X64"
      [] isa = "InstructionSet_AVX512CD" -> "InstructionSet_AVX512CD_X64"
      [] isa = "InstructionSet_AVX512CD_VL" -> "InstructionSet_AVX512CD_VL_X64"
      [] isa = "InstructionSet_AVX512DQ" -> "InstructionSet_AVX512DQ_X64"
      [] isa = "InstructionSet_AVX512DQ_VL" -> "InstructionSet_AVX512DQ_VL_X64"
      [] isa = "InstructionSet_AVX512F" -> "InstructionSet_AVX512F_X64"
      [] isa = "InstructionSet_AVX512F_VL" -> "InstructionSet_AVX512F_X64"
      [] isa = "InstructionSet_AVXVNNI" -> "InstructionSet_AVXVNNI_X64"
      [] isa = "InstructionSet_AES" -> "InstructionSet_AES_X64"
      [] isa = "InstructionSet_BMI1" -> "InstructionSet_BMI1_X64"
      [] isa = "InstructionSet_BMI2" -> "InstructionSet_BMI2_X64"
      [] isa = "InstructionSet_FMA" -> "InstructionSet_FMA_X64"
      [] isa = "InstructionSet_LZCNT" -> "InstructionSet_LZCNT_X64"
      [] isa = "InstructionSet_PCLMULQDQ" -> "InstructionSet_PCLMULQDQ_X64"
      [] isa = "InstructionSet_POPCNT" -> "InstructionSet_POPCNT_X64"
      [] isa = "InstructionSet_X86Serialize" -> "InstructionSet_X86Serialize_X64"
      [] OTHER -> "InstructionSet_NONE"

X64VersionOfIsa(isa) ==
    CASE isa = "InstructionSet_X86Base" -> "InstructionSet_X86Base_X64"
      [] isa = "InstructionSet_SSE" -> "InstructionSet_SSE_X64"
      [] isa = "InstructionSet_SSE2" -> "InstructionSet_SSE2_X64"
      [] isa = "InstructionSet_SSE3" -> "InstructionSet_SSE3_X64"
      [] isa = "InstructionSet_SSSE3" -> "InstructionSet_SSSE3_X64"
      [] isa = "InstructionSet_SSE41" -> "InstructionSet_SSE41_X64"
      [] isa = "InstructionSet_SSE42" -> "InstructionSet_SSE42_X64"
      [] isa = "InstructionSet_AVX" -> "InstructionSet_AVX_X64"
      [] isa = "InstructionSet_AVX2" -> "InstructionSet_AVX2_X64"
      [] isa = "InstructionSet_AVX512BW" -> "InstructionSet_AVX512BW_X64"
      [] isa = "InstructionSet_AVX512BW_VL" -> "InstructionSet_AVX512BW_VL_X64"
      [] isa = "InstructionSet_AVX512CD" -> "InstructionSet_AVX512CD_X64"
      [] isa = "InstructionSet_AVX512CD_VL" -> "InstructionSet_AVX512CD_VL_X64"
      [] isa = "InstructionSet_AVX512DQ" -> "InstructionSet_AVX512DQ_X64"
      [] isa = "InstructionSet_AVX512DQ_VL" -> "InstructionSet_AVX512DQ_VL_X64"
      [] isa = "InstructionSet_AVX512F" -> "InstructionSet_AVX512F_X64"
      [] isa = "InstructionSet_AVX512F_VL" -> "InstructionSet_AVX512F_VL_X64"
      [] isa = "InstructionSet_AVXVNNI" -> "InstructionSet_AVXVNNI_X64"
      [] isa = "InstructionSet_AES" -> "InstructionSet_AES_X64"
      [] isa = "InstructionSet_BMI1" -> "InstructionSet_BMI1_X64"
      [] isa = "InstructionSet_BMI2" -> "InstructionSet_BMI2_X64"
      [] isa = "InstructionSet_FMA" -> "InstructionSet_FMA_X64"
      [] isa = "InstructionSet_LZCNT" -> "InstructionSet_LZCNT_X64"
      [] isa = "InstructionSet_PCLMULQDQ" -> "InstructionSet_PCLMULQDQ_X64"
      [] isa = "InstructionSet_POPCNT" -> "InstructionSet_POPCNT_X64"
      [] isa = "InstructionSet_X86Serialize" -> "InstructionSet_X86Serialize_X64"
      [] OTHER -> "InstructionSet_NONE"

VLVersionOfIsa(isa) ==
    CASE isa = "InstructionSet_AVX512BW" -> "InstructionSet_AVX512BW_VL"
      [] isa = "InstructionSet_AVX512CD" -> "InstructionSet_AVX512CD_VL"
      [] isa = "InstructionSet_AVX512DQ" -> "InstructionSet_AVX512DQ_VL"
      [] isa = "InstructionSet_AVX512F" -> "InstructionSet_AVX512F_VL"
      [] OTHER -> "InstructionSet_NONE"

\* className[0] == ch
FirstCharIs(className, ch) == Len(className) > 0 /\ SubSeq(className, 1, 1) = ch

\* strncmp(className, prefix, strlen(prefix)) == 0
strncmpEqual(className, prefix) ==
    Len(className) >= Len(prefix) /\ SubSeq(className, 1, Len(prefix)) = prefix

\* lookupInstructionSet comparing only the first three characters with "Avx"
lookupInstructionSet_avxPrefix(className) ==
    IF className = NullName
    THEN AssertionFailure
    ELSE IF FirstCharIs(className, "A")
    THEN CASE className = "Aes" -> Returns("InstructionSet_AES")
           [] className = "Avx2" -> Returns("InstructionSet_AVX2")
           [] className = "Avx512BW" -> Returns("InstructionSet_AVX512BW")
           [] className = "Avx512CD" -> Returns("InstructionSet_AVX512CD")
           [] className = "Avx512DQ" -> Returns("InstructionSet_AVX512DQ")
           [] className = "Avx512F" -> Returns("InstructionSet_AVX512F")
           [] className = "AvxVnni" -> Returns("InstructionSet_AVXVNNI")
           [] OTHER -> IF strncmpEqual(className, "Avx")
                      THEN Returns("InstructionSet_AVX")
                      ELSE Returns("InstructionSet_ILLEGAL")
    ELSE IF FirstCharIs(className, "S")
    THEN CASE className = "Sse" -> Returns("InstructionSet_SSE")
           [] className = "Sse2" -> Returns("InstructionSet_SSE2")
           [] className = "Sse3" -> Returns("InstructionSet_SSE3")
           [] className = "Ssse3" -> Returns("InstructionSet_SSSE3")
           [] className = "Sse41" -> Returns("InstructionSet_SSE41")
           [] className = "Sse42" -> Returns("InstructionSet_SSE42")
           [] OTHER -> Returns("InstructionSet_ILLEGAL")
    ELSE IF FirstCharIs(className, "B")
    THEN CASE className = "Bmi1" -> Returns("InstructionSet_BMI1")
           [] className = "Bmi2" -> Returns("InstructionSet_BMI2")
           [] OTHER -> Returns("InstructionSet_ILLEGAL")
    ELSE IF FirstCharIs(className, "P")
    THEN CASE className = "Pclmulqdq" -> Returns("InstructionSet_PCLMULQDQ")
           [] className = "Popcnt" -> Returns("InstructionSet_POPCNT")
           [] OTHER -> Returns("InstructionSet_ILLEGAL")
    ELSE IF FirstCharIs(className, "V")
    THEN IF strncmpEqual(className, "Vector128")
         THEN Returns("InstructionSet_Vector128")
         ELSE IF strncmpEqual(className, "Vector256")
         THEN Returns("InstructionSet_Vector256")
         ELSE IF strncmpEqual(className, "Vector512")
         THEN Returns("InstructionSet_Vector512")
         ELSE IF className = "VL"
         THEN AssertThenReturns("InstructionSet_ILLEGAL")  \* assert(!"VL.X64 support doesn't exist ...")
         ELSE Returns("InstructionSet_ILLEGAL")
    ELSE IF className = "Fma"
    THEN Returns("InstructionSet_FMA")
    ELSE IF className = "Lzcnt"
    THEN Returns("InstructionSet_LZCNT")
    ELSE IF className = "X86Base"
    THEN Returns("InstructionSet_X86Base")
    ELSE IF className = "X86Serialize"
    THEN Returns("InstructionSet_X86Serialize")
    ELSE Returns("InstructionSet_ILLEGAL")

\* lookupInstructionSet whose "VL" branch returns without asserting
lookupInstructionSet_silentVL(className) ==
    IF className = NullName
    THEN AssertionFailure
    ELSE IF FirstCharIs(className, "A")
    THEN CASE className = "Aes" -> Returns("InstructionSet_AES")
           [] className = "Avx" -> Returns("InstructionSet_AVX")
           [] className = "Avx2" -> Returns("InstructionSet_AVX2")
           [] className = "Avx512BW" -> Returns("InstructionSet_AVX512BW")
           [] className = "Avx512CD" -> Returns("InstructionSet_AVX512CD")
           [] className = "Avx512DQ" -> Returns("InstructionSet_AVX512DQ")
           [] className = "Avx512F" -> Returns("InstructionSet_AVX512F")
           [] className = "AvxVnni" -> Returns("InstructionSet_AVXVNNI")
           [] OTHER -> Returns("InstructionSet_ILLEGAL")
    ELSE IF FirstCharIs(className, "S")
    THEN CASE className = "Sse" -> Returns("InstructionSet_SSE")
           [] className = "Sse2" -> Returns("InstructionSet_SSE2")
           [] className = "Sse3" -> Returns("InstructionSet_SSE3")
           [] className = "Ssse3" -> Returns("InstructionSet_SSSE3")
           [] className = "Sse41" -> Returns("InstructionSet_SSE41")
           [] className = "Sse42" -> Returns("InstructionSet_SSE42")
           [] OTHER -> Returns("InstructionSet_ILLEGAL")
    ELSE IF FirstCharIs(className, "B")
    THEN CASE className = "Bmi1" -> Returns("InstructionSet_BMI1")
           [] className = "Bmi2" -> Returns("InstructionSet_BMI2")
           [] OTHER -> Returns("InstructionSet_ILLEGAL")
    ELSE IF FirstCharIs(className, "P")
    THEN CASE className = "Pclmulqdq" -> Returns("InstructionSet_PCLMULQDQ")
           [] className = "Popcnt" -> Returns("InstructionSet_POPCNT")
           [] OTHER -> Returns("InstructionSet_ILLEGAL")
    ELSE IF FirstCharIs(className, "V")
    THEN IF strncmpEqual(className, "Vector128")
         THEN Returns("InstructionSet_Vector128")
         ELSE IF strncmpEqual(className, "Vector256")
         THEN Returns("InstructionSet_Vector256")
         ELSE IF strncmpEqual(className, "Vector512")
         THEN Returns("InstructionSet_Vector512")
         ELSE IF className = "VL"
         THEN Returns("InstructionSet_ILLEGAL")
         ELSE Returns("InstructionSet_ILLEGAL")
    ELSE IF className = "Fma"
    THEN Returns("InstructionSet_FMA")
    ELSE IF className = "Lzcnt"
    THEN Returns("InstructionSet_LZCNT")
    ELSE IF className = "X86Base"
    THEN Returns("InstructionSet_X86Base")
    ELSE IF className = "X86Serialize"
    THEN Returns("InstructionSet_X86Serialize")
    ELSE Returns("InstructionSet_ILLEGAL")

lookupInstructionSet(className) ==
    IF className = NullName
    THEN AssertionFailure
    ELSE IF FirstCharIs(className, "A")
    THEN CASE className = "Aes" -> Returns("InstructionSet_AES")
           [] className = "Avx" -> Returns("InstructionSet_AVX")
           [] className = "Avx2" -> Returns("InstructionSet_AVX2")
           [] className = "Avx512BW" -> Returns("InstructionSet_AVX512BW")
           [] className = "Avx512CD" -> Returns("InstructionSet_AVX512CD")
           [] className = "Avx512DQ" -> Returns("InstructionSet_AVX512DQ")
           [] className = "Avx512F" -> Returns("InstructionSet_AVX512F")
           [] className = "AvxVnni" -> Returns("InstructionSet_AVXVNNI")
           [] OTHER -> Returns("InstructionSet_ILLEGAL")
    ELSE IF FirstCharIs(className, "S")
    THEN CASE className = "Sse" -> Returns("InstructionSet_SSE")
           [] className = "Sse2" -> Returns("InstructionSet_SSE2")
           [] className = "Sse3" -> Returns("InstructionSet_SSE3")
           [] className = "Ssse3" -> Returns("InstructionSet_SSSE3")
           [] className = "Sse41" -> Returns("InstructionSet_SSE41")
           [] className = "Sse42" -> Returns("InstructionSet_SSE42")
           [] OTHER -> Returns("InstructionSet_ILLEGAL")
    ELSE IF FirstCharIs(className, "B")
    THEN CASE className = "Bmi1" -> Returns("InstructionSet_BMI1")
           [] className = "Bmi2" -> Returns("InstructionSet_BMI2")
           [] OTHER -> Returns("InstructionSet_ILLEGAL")
    ELSE IF FirstCharIs(className, "P")
    THEN CASE className = "Pclmulqdq" -> Returns("InstructionSet_PCLMULQDQ")
           [] className = "Popcnt" -> Returns("InstructionSet_POPCNT")
           [] OTHER -> Returns("InstructionSet_ILLEGAL")
    ELSE IF FirstCharIs(className, "V")
    THEN IF strncmpEqual(className, "Vector128")
         THEN Returns("InstructionSet_Vector128")
         ELSE IF strncmpEqual(className, "Vector256")
         THEN Returns("InstructionSet_Vector256")
         ELSE IF strncmpEqual(className, "Vector512")
         THEN Returns("InstructionSet_Vector512")
         ELSE IF className = "VL"
         THEN AssertThenReturns("InstructionSet_ILLEGAL")  \* assert(!"VL.X64 support doesn't exist ...")
         ELSE Returns("InstructionSet_ILLEGAL")
    ELSE IF className = "Fma"
    THEN Returns("InstructionSet_FMA")
    ELSE IF className = "Lzcnt"
    THEN Returns("InstructionSet_LZCNT")
    ELSE IF className = "X86Base"
    THEN Returns("InstructionSet_X86Base")
    ELSE IF className = "X86Serialize"
    THEN Returns("InstructionSet_X86Serialize")
    ELSE Returns("InstructionSet_ILLEGAL")

\* lookupIsa whose "VL" branch calls X64VersionOfIsa
lookupIsa_vlUsesX64(className, enclosingClassName) ==
    IF className = NullName
    THEN AssertionFailure
    ELSE IF className \in {"X64", "VL"}
    THEN IF enclosingClassName = NullName
         THEN AssertionFailure
         ELSE LET inner == lookupInstructionSet(enclosingClassName)
              IN  IF Succeeded(inner)
                  THEN Returns(X64VersionOfIsa(ValueOf(inner)))
                  ELSE AssertThenReturns(X64VersionOfIsa(ValueOf(inner)))
    ELSE lookupInstructionSet(className)

\* lookupIsa whose X64 branch resolves to the 64-bit counterpart of the VL capability where there is one
lookupIsa_x64OfVL(className, enclosingClassName) ==
    IF className = NullName
    THEN AssertionFailure
    ELSE IF className = "X64"
    THEN IF enclosingClassName = NullName
         THEN AssertionFailure
         ELSE LET inner == lookupInstructionSet(enclosingClassName)
              IN  IF Succeeded(inner)
                  THEN IF VLVersionOfIsa(ValueOf(inner)) # "InstructionSet_NONE"
                       THEN Returns(X64VersionOfIsa(VLVersionOfIsa(ValueOf(inner))))
                       ELSE Returns(X64VersionOfIsa(ValueOf(inner)))
                  ELSE AssertThenReturns(X64VersionOfIsa(ValueOf(inner)))
    ELSE IF className = "VL"
    THEN IF enclosingClassName = NullName
         THEN AssertionFailure
         ELSE LET inner == lookupInstructionSet(enclosingClassName)
              IN  IF Succeeded(inner)
                  THEN Returns(VLVersionOfIsa(ValueOf(inner)))
                  ELSE AssertThenReturns(VLVersionOfIsa(ValueOf(inner)))
    ELSE lookupInstructionSet(className)

\* "return f(lookupInstructionSet(enclosingClassName))": an assert in the inner call stops the
\* outer one; where asserts are compiled out f is applied to what the inner call returns
lookupIsa(className, enclosingClassName) ==
    IF className = NullName
    THEN AssertionFailure
    ELSE IF className = "X64"
    THEN IF enclosingClassName = NullName
         THEN AssertionFailure
         ELSE LET inner == lookupInstructionSet(enclosingClassName)
              IN  IF Succeeded(inner)
                  THEN Returns(X64VersionOfIsa(ValueOf(inner)))
                  ELSE AssertThenReturns(X64VersionOfIsa(ValueOf(inner)))
    ELSE IF className = "VL"
    THEN IF enclosingClassName = NullName
         THEN AssertionFailure
         ELSE LET inner == lookupInstructionSet(enclosingClassName)
              IN  IF Succeeded(inner)
                  THEN Returns(VLVersionOfIsa(ValueOf(inner)))
                  ELSE AssertThenReturns(VLVersionOfIsa(ValueOf(inner)))
    ELSE lookupInstructionSet(className)

\* lookupImmUpperBound without the case label NI_AVX2_GatherMaskVector256
lookupImmUpperBound_missingLabel(id, entry) ==
    IF entry.category # "HW_Category_IMM"
    THEN AssertionFailure
    ELSE CASE id \in {"NI_AVX_Compare", "NI_AVX_CompareScalar"} ->
                IF entry.HasFullRangeImm THEN AssertionFailure ELSE Returns(31)
           [] id \in {"NI_AVX2_GatherVector128", "NI_AVX2_GatherVector256",
                      "NI_AVX2_GatherMaskVector128"} ->
                Returns(8)
           [] OTHER ->
                IF entry.HasFullRangeImm THEN Returns(255) ELSE AssertionFailure

\* entry is the intrinsic's row of the intrinsic table: [category, HasFullRangeImm]
lookupImmUpperBound(id, entry) ==
    IF entry.category # "HW_Category_IMM"
    THEN AssertionFailure
    ELSE CASE id \in {"NI_AVX_Compare", "NI_AVX_CompareScalar"} ->
                IF entry.HasFullRangeImm THEN AssertionFailure ELSE Returns(31)
           [] id \in {"NI_AVX2_GatherVector128", "NI_AVX2_GatherVector256",
                      "NI_AVX2_GatherMaskVector128", "NI_AVX2_GatherMaskVector256"} ->
                Returns(8)
           [] OTHER ->
                IF entry.HasFullRangeImm THEN Returns(255) ELSE AssertionFailure

isAVX2GatherIntrinsic(id) ==
    id \in {"NI_AVX2_GatherVector128", "NI_AVX2_GatherVector256",
            "NI_AVX2_GatherMaskVector128", "NI_AVX2_GatherMaskVector256"}

\* the FloatComparisonMode values the switch has a case for
FloatComparisonModes ==
    {"OrderedEqualNonSignaling", "UnorderedNonSignaling", "UnorderedNotEqualNonSignaling",
     "OrderedNonSignaling", "UnorderedEqualNonSignaling", "OrderedFalseNonSignaling",
     "OrderedNotEqualNonSignaling", "UnorderedTrueNonSignaling", "OrderedEqualSignaling",
     "UnorderedSignaling", "UnorderedNotEqualSignaling", "OrderedSignaling",
     "UnorderedEqualSignaling", "OrderedFalseSignaling", "OrderedNotEqualSignaling",
     "UnorderedTrueSignaling",
     "OrderedLessThanSignaling", "OrderedLessThanOrEqualSignaling", "UnorderedNotLessThanSignaling",
     "UnorderedNotLessThanOrEqualSignaling", "UnorderedNotGreaterThanOrEqualSignaling",
     "UnorderedNotGreaterThanSignaling", "OrderedGreaterThanOrEqualSignaling",
     "OrderedGreaterThanSignaling", "OrderedLessThanNonSignaling",
     "OrderedLessThanOrEqualNonSignaling", "UnorderedNotLessThanNonSignaling",
     "UnorderedNotLessThanOrEqualNonSignaling", "UnorderedNotGreaterThanOrEqualNonSignaling",
     "UnorderedNotGreaterThanNonSignaling", "OrderedGreaterThanOrEqualNonSignaling",
     "OrderedGreaterThanNonSignaling"}

\* the table with UnorderedNotLessThanNonSignaling sent to the signaling form of its partner
lookupFloatComparisonModeForSwappedArgs_sameSwap(comparison) ==
    CASE comparison = "OrderedEqualNonSignaling" -> Returns("OrderedEqualNonSignaling")
      [] comparison = "UnorderedNonSignaling" -> Returns("UnorderedNonSignaling")
      [] comparison = "UnorderedNotEqualNonSignaling" -> Returns("UnorderedNotEqualNonSignaling")
      [] comparison = "OrderedNonSignaling" -> Returns("OrderedNonSignaling")
      [] comparison = "UnorderedEqualNonSignaling" -> Returns("UnorderedEqualNonSignaling")
      [] comparison = "OrderedFalseNonSignaling" -> Returns("OrderedFalseNonSignaling")
      [] comparison = "OrderedNotEqualNonSignaling" -> Returns("OrderedNotEqualNonSignaling")
      [] comparison = "UnorderedTrueNonSignaling" -> Returns("UnorderedTrueNonSignaling")
      [] comparison = "OrderedEqualSignaling" -> Returns("OrderedEqualSignaling")
      [] comparison = "UnorderedSignaling" -> Returns("UnorderedSignaling")
      [] comparison = "UnorderedNotEqualSignaling" -> Returns("UnorderedNotEqualSignaling")
      [] comparison = "OrderedSignaling" -> Returns("OrderedSignaling")
      [] comparison = "UnorderedEqualSignaling" -> Returns("UnorderedEqualSignaling")
      [] comparison = "OrderedFalseSignaling" -> Returns("OrderedFalseSignaling")
      [] comparison = "OrderedNotEqualSignaling" -> Returns("OrderedNotEqualSignaling")
      [] comparison = "UnorderedTrueSignaling" -> Returns("UnorderedTrueSignaling")
      [] comparison = "OrderedLessThanSignaling" -> Returns("OrderedGreaterThanSignaling")
      [] comparison = "OrderedLessThanOrEqualSignaling" -> Returns("OrderedGreaterThanOrEqualSignaling")
      [] comparison = "UnorderedNotLessThanSignaling" -> Returns("UnorderedNotGreaterThanSignaling")
      [] comparison = "UnorderedNotLessThanOrEqualSignaling" ->
            Returns("UnorderedNotGreaterThanOrEqualSignaling")
      [] comparison = "UnorderedNotGreaterThanOrEqualSignaling" ->
            Returns("UnorderedNotLessThanOrEqualSignaling")
      [] comparison = "UnorderedNotGreaterThanSignaling" -> Returns("UnorderedNotLessThanSignaling")
      [] comparison = "OrderedGreaterThanOrEqualSignaling" -> Returns("OrderedLessThanOrEqualSignaling")
      [] comparison = "OrderedGreaterThanSignaling" -> Returns("OrderedLessThanSignaling")
      [] comparison = "OrderedLessThanNonSignaling" -> Returns("OrderedGreaterThanNonSignaling")
      [] comparison = "OrderedLessThanOrEqualNonSignaling" ->
            Returns("OrderedGreaterThanOrEqualNonSignaling")
      [] comparison = "UnorderedNotLessThanNonSignaling" -> Returns("UnorderedNotGreaterThanSignaling")
      [] comparison = "UnorderedNotLessThanOrEqualNonSignaling" ->
            Returns("UnorderedNotGreaterThanOrEqualNonSignaling")
      [] comparison = "UnorderedNotGreaterThanOrEqualNonSignaling" ->
            Returns("UnorderedNotLessThanOrEqualNonSignaling")
      [] comparison = "UnorderedNotGreaterThanNonSignaling" -> Returns("UnorderedNotLessThanNonSignaling")
      [] comparison = "OrderedGreaterThanOrEqualNonSignaling" ->
            Returns("OrderedLessThanOrEqualNonSignaling")
      [] comparison = "OrderedGreaterThanNonSignaling" -> Returns("OrderedLessThanNonSignaling")
      [] OTHER -> AssertionFailure  \* unreached()

lookupFloatComparisonModeForSwappedArgs(comparison) ==
    CASE comparison = "OrderedEqualNonSignaling" -> Returns("OrderedEqualNonSignaling")
      [] comparison = "UnorderedNonSignaling" -> Returns("UnorderedNonSignaling")
      [] comparison = "UnorderedNotEqualNonSignaling" -> Returns("UnorderedNotEqualNonSignaling")
      [] comparison = "OrderedNonSignaling" -> Returns("OrderedNonSignaling")
      [] comparison = "UnorderedEqualNonSignaling" -> Returns("UnorderedEqualNonSignaling")
      [] comparison = "OrderedFalseNonSignaling" -> Returns("OrderedFalseNonSignaling")
      [] comparison = "OrderedNotEqualNonSignaling" -> Returns("OrderedNotEqualNonSignaling")
      [] comparison = "UnorderedTrueNonSignaling" -> Returns("UnorderedTrueNonSignaling")
      [] comparison = "OrderedEqualSignaling" -> Returns("OrderedEqualSignaling")
      [] comparison = "UnorderedSignaling" -> Returns("UnorderedSignaling")
      [] comparison = "UnorderedNotEqualSignaling" -> Returns("UnorderedNotEqualSignaling")
      [] comparison = "OrderedSignaling" -> Returns("OrderedSignaling")
      [] comparison = "UnorderedEqualSignaling" -> Returns("UnorderedEqualSignaling")
      [] comparison = "OrderedFalseSignaling" -> Returns("OrderedFalseSignaling")
      [] comparison = "OrderedNotEqualSignaling" -> Returns("OrderedNotEqualSignaling")
      [] comparison = "UnorderedTrueSignaling" -> Returns("UnorderedTrueSignaling")
      [] comparison = "OrderedLessThanSignaling" -> Returns("OrderedGreaterThanSignaling")
      [] comparison = "OrderedLessThanOrEqualSignaling" -> Returns("OrderedGreaterThanOrEqualSignaling")
      [] comparison = "UnorderedNotLessThanSignaling" -> Returns("UnorderedNotGreaterThanSignaling")
      [] comparison = "UnorderedNotLessThanOrEqualSignaling" ->
            Returns("UnorderedNotGreaterThanOrEqualSignaling")
      [] comparison = "UnorderedNotGreaterThanOrEqualSignaling" ->
            Returns("UnorderedNotLessThanOrEqualSignaling")
      [] comparison = "UnorderedNotGreaterThanSignaling" -> Returns("UnorderedNotLessThanSignaling")
      [] comparison = "OrderedGreaterThanOrEqualSignaling" -> Returns("OrderedLessThanOrEqualSignaling")
      [] comparison = "OrderedGreaterThanSignaling" -> Returns("OrderedLessThanSignaling")
      [] comparison = "OrderedLessThanNonSignaling" -> Returns("OrderedGreaterThanNonSignaling")
      [] comparison = "OrderedLessThanOrEqualNonSignaling" ->
            Returns("OrderedGreaterThanOrEqualNonSignaling")
      [] comparison = "UnorderedNotLessThanNonSignaling" -> Returns("UnorderedNotGreaterThanNonSignaling")
      [] comparison = "UnorderedNotLessThanOrEqualNonSignaling" ->
            Returns("UnorderedNotGreaterThanOrEqualNonSignaling")
      [] comparison = "UnorderedNotGreaterThanOrEqualNonSignaling" ->
            Returns("UnorderedNotLessThanOrEqualNonSignaling")
      [] comparison = "UnorderedNotGreaterThanNonSignaling" -> Returns("UnorderedNotLessThanNonSignaling")
      [] comparison = "OrderedGreaterThanOrEqualNonSignaling" ->
            Returns("OrderedLessThanOrEqualNonSignaling")
      [] comparison = "OrderedGreaterThanNonSignaling" -> Returns("OrderedLessThanNonSignaling")
      [] OTHER -> AssertionFailure  \* unreached()

\* isFullyImplementedIsa without the case labels of the four AVX512*_VL capabilities
isFullyImplementedIsa_noVL(isa) ==
    isa \in {"InstructionSet_AES", "InstructionSet_AES_X64", "InstructionSet_AVX", "InstructionSet_AVX_X64",
             "InstructionSet_AVX2", "InstructionSet_AVX2_X64",
             "InstructionSet_AVX512F", "InstructionSet_AVX512F_VL_X64",
             "InstructionSet_AVX512F_X64",
             "InstructionSet_AVX512BW", "InstructionSet_AVX512BW_VL_X64",
             "InstructionSet_AVX512BW_X64",
             "InstructionSet_AVX512CD", "InstructionSet_AVX512CD_VL_X64",
             "InstructionSet_AVX512CD_X64",
             "InstructionSet_AVX512DQ", "InstructionSet_AVX512DQ_VL_X64",
             "InstructionSet_AVX512DQ_X64",
             "InstructionSet_AVXVNNI", "InstructionSet_AVXVNNI_X64",
             "InstructionSet_BMI1", "InstructionSet_BMI1_X64", "InstructionSet_BMI2", "InstructionSet_BMI2_X64",
             "InstructionSet_FMA", "InstructionSet_FMA_X64", "InstructionSet_LZCNT", "InstructionSet_LZCNT_X64",
             "InstructionSet_PCLMULQDQ", "InstructionSet_PCLMULQDQ_X64",
             "InstructionSet_POPCNT", "InstructionSet_POPCNT_X64",
             "InstructionSet_SSE", "InstructionSet_SSE_X64", "InstructionSet_SSE2", "InstructionSet_SSE2_X64",
             "InstructionSet_SSE3", "InstructionSet_SSE3_X64", "InstructionSet_SSSE3", "InstructionSet_SSSE3_X64",
             "InstructionSet_SSE41", "InstructionSet_SSE41_X64", "InstructionSet_SSE42", "InstructionSet_SSE42_X64",
             "InstructionSet_Vector128", "InstructionSet_Vector256", "InstructionSet_Vector512",
             "InstructionSet_X86Base", "InstructionSet_X86Base_X64",
             "InstructionSet_X86Serialize", "InstructionSet_X86Serialize_X64"}

isFullyImplementedIsa(isa) ==
    isa \in {"InstructionSet_AES", "InstructionSet_AES_X64", "InstructionSet_AVX", "InstructionSet_AVX_X64",
             "InstructionSet_AVX2", "InstructionSet_AVX2_X64",
             "InstructionSet_AVX512F", "InstructionSet_AVX512F_VL", "InstructionSet_AVX512F_VL_X64",
             "InstructionSet_AVX512F_X64",
             "InstructionSet_AVX512BW", "InstructionSet_AVX512BW_VL", "InstructionSet_AVX512BW_VL_X64",
             "InstructionSet_AVX512BW_X64",
             "InstructionSet_AVX512CD", "InstructionSet_AVX512CD_VL", "InstructionSet_AVX512CD_VL_X64",
             "InstructionSet_AVX512CD_X64",
             "InstructionSet_AVX512DQ", "InstructionSet_AVX512DQ_VL", "InstructionSet_AVX512DQ_VL_X64",
             "InstructionSet_AVX512DQ_X64",
             "InstructionSet_AVXVNNI", "InstructionSet_AVXVNNI_X64",
             "InstructionSet_BMI1", "InstructionSet_BMI1_X64", "InstructionSet_BMI2", "InstructionSet_BMI2_X64",
             "InstructionSet_FMA", "InstructionSet_FMA_X64", "InstructionSet_LZCNT", "InstructionSet_LZCNT_X64",
             "InstructionSet_PCLMULQDQ", "InstructionSet_PCLMULQDQ_X64",
             "InstructionSet_POPCNT", "InstructionSet_POPCNT_X64",
             "InstructionSet_SSE", "InstructionSet_SSE_X64", "InstructionSet_SSE2", "InstructionSet_SSE2_X64",
             "InstructionSet_SSE3", "InstructionSet_SSE3_X64", "InstructionSet_SSSE3", "InstructionSet_SSSE3_X64",
             "InstructionSet_SSE41", "InstructionSet_SSE41_X64", "InstructionSet_SSE42", "InstructionSet_SSE42_X64",
             "InstructionSet_Vector128", "InstructionSet_Vector256", "InstructionSet_Vector512",
             "InstructionSet_X86Base", "InstructionSet_X86Base_X64",
             "InstructionSet_X86Serialize", "InstructionSet_X86Serialize_X64"}

\* isScalarIsa with case labels for POPCNT and POPCNT_X64
isScalarIsa_withPopcnt(isa) ==
    isa \in {"InstructionSet_BMI1", "InstructionSet_BMI1_X64", "InstructionSet_BMI2", "InstructionSet_BMI2_X64",
             "InstructionSet_LZCNT", "InstructionSet_LZCNT_X64",
             "InstructionSet_POPCNT", "InstructionSet_POPCNT_X64",
             "InstructionSet_X86Base", "InstructionSet_X86Base_X64"}

isScalarIsa(isa) ==
    isa \in {"InstructionSet_BMI1", "InstructionSet_BMI1_X64", "InstructionSet_BMI2", "InstructionSet_BMI2_X64",
             "InstructionSet_LZCNT", "InstructionSet_LZCNT_X64",
             "InstructionSet_X86Base", "InstructionSet_X86Base_X64"}

---------------------------------------------------------------------------
(* Compiler::impNonConstFallback.  c is the call: intrinsic, simdBaseType, *)
(* simdSize (the size of simdType), NoJmpTableImm (the intrinsic's flag)   *)
(* and the stack.                                                          *)

\* the case labels of its switch
NonConstFallbackIds ==
    {"NI_SSE2_ShiftLeftLogical", "NI_SSE2_ShiftRightArithmetic", "NI_SSE2_ShiftRightLogical",
     "NI_AVX2_ShiftLeftLogical", "NI_AVX2_ShiftRightArithmetic", "NI_AVX2_ShiftRightLogical",
     "NI_AVX512F_ShiftLeftLogical", "NI_AVX512F_ShiftRightArithmetic", "NI_AVX512F_ShiftRightLogical",
     "NI_AVX512F_VL_ShiftRightArithmetic",
     "NI_AVX512BW_ShiftLeftLogical", "NI_AVX512BW_ShiftRightArithmetic", "NI_AVX512BW_ShiftRightLogical"}

\* impNonConstFallback spilling the top of the stack (the count) instead of
\* the second-from-top operand
impNonConstFallback_spillsTop(c) ==
    Require(c.NoJmpTableImm, Frame(c),
        IF c.intrinsic \in NonConstFallbackIds
        THEN LET f     == impSpillSideEffect(Frame(c), esStackDepth(Frame(c)) - 1)
                 p2    == impPopStack(f)
                 p1    == impSIMDPopStack(p2.f)
                 tmpOp == Node("gtNewSimdHWIntrinsicNode", "NI_SSE2_ConvertScalarToVector128Int32",
                               <<p2.val>>, "TYP_INT", 16)
             IN  Ret(Node("gtNewSimdHWIntrinsicNode", c.intrinsic, <<p1.val, tmpOp>>,
                          c.simdBaseType, c.simdSize), p1.f)
        ELSE Ret(NullNode, Frame(c)))

\* impNonConstFallback popping its two operands ahead of the switch
impNonConstFallback_popsBeforeSwitch(c) ==
    Require(c.NoJmpTableImm, Frame(c),
        LET f     == impSpillSideEffect(Frame(c), esStackDepth(Frame(c)) - 2)
            p2    == impPopStack(f)
            p1    == impSIMDPopStack(p2.f)
            tmpOp == Node("gtNewSimdHWIntrinsicNode", "NI_SSE2_ConvertScalarToVector128Int32",
                          <<p2.val>>, "TYP_INT", 16)
        IN  IF c.intrinsic \in NonConstFallbackIds
            THEN Ret(Node("gtNewSimdHWIntrinsicNode", c.intrinsic, <<p1.val, tmpOp>>,
                          c.simdBaseType, c.simdSize), p1.f)
            ELSE Ret(NullNode, p1.f))

impNonConstFallback(c) ==
    Require(c.NoJmpTableImm, Frame(c),
        IF c.intrinsic \in NonConstFallbackIds
        THEN LET f     == impSpillSideEffect(Frame(c), esStackDepth(Frame(c)) - 2)
                 p2    == impPopStack(f)
                 p1    == impSIMDPopStack(p2.f)
                 tmpOp == Node("gtNewSimdHWIntrinsicNode", "NI_SSE2_ConvertScalarToVector128Int32",
                               <<p2.val>>, "TYP_INT", 16)
             IN  Ret(Node("gtNewSimdHWIntrinsicNode", c.intrinsic, <<p1.val, tmpOp>>,
                          c.simdBaseType, c.simdSize), p1.f)
        ELSE Ret(NullNode, Frame(c)))

---------------------------------------------------------------------------
(* Case labels of the switch in Compiler::impSpecialIntrinsic               *)

\* the labels of each case of the switch, by the first label of the case
CaseLabels(first) ==
    CASE first = "NI_Vector128_Abs" ->  \* lines 613-614
            {"NI_Vector128_Abs", "NI_Vector256_Abs"}
      [] first = "NI_Vector128_Add" ->  \* lines 627-632
            {"NI_Vector128_Add", "NI_Vector256_Add", "NI_Vector512_Add", "NI_Vector128_op_Addition",
             "NI_Vector256_op_Addition", "NI_Vector512_op_Addition"}
      [] first = "NI_Vector128_AndNot" ->  \* lines 646-648
            {"NI_Vector128_AndNot", "NI_Vector256_AndNot", "NI_Vector512_AndNot"}
      [] first = "NI_Vector128_As" ->  \* lines 662-701
            {"NI_Vector128_As", "NI_Vector128_AsByte", "NI_Vector128_AsDouble", "NI_Vector128_AsInt16",
             "NI_Vector128_AsInt32", "NI_Vector128_AsInt64", "NI_Vector128_AsNInt", "NI_Vector128_AsNUInt",
             "NI_Vector128_AsSByte", "NI_Vector128_AsSingle", "NI_Vector128_AsUInt16", "NI_Vector128_AsUInt32",
             "NI_Vector128_AsUInt64", "NI_Vector128_AsVector4", "NI_Vector256_As", "NI_Vector256_AsByte",
             "NI_Vector256_AsDouble", "NI_Vector256_AsInt16", "NI_Vector256_AsInt32", "NI_Vector256_AsInt64",
             "NI_Vector256_AsNInt", "NI_Vector256_AsNUInt", "NI_Vector256_AsSByte", "NI_Vector256_AsSingle",
             "NI_Vector256_AsUInt16", "NI_Vector256_AsUInt32", "NI_Vector256_AsUInt64", "NI_Vector512_As",
             "NI_Vector512_AsByte", "NI_Vector512_AsDouble", "NI_Vector512_AsInt16", "NI_Vector512_AsInt32",
             "NI_Vector512_AsInt64", "NI_Vector512_AsNInt", "NI_Vector512_AsNUInt", "NI_Vector512_AsSByte",
             "NI_Vector512_AsSingle", "NI_Vector512_AsUInt16", "NI_Vector512_AsUInt32", "NI_Vector512_AsUInt64"}
      [] first = "NI_Vector128_AsVector" ->  \* lines 715-715
            {"NI_Vector128_AsVector"}
      [] first = "NI_Vector128_AsVector2" ->  \* lines 739-740
            {"NI_Vector128_AsVector2", "NI_Vector128_AsVector3"}
      [] first = "NI_Vector128_AsVector128" ->  \* lines 751-751
            {"NI_Vector128_AsVector128"}
      [] first = "NI_Vector256_AsVector" ->  \* lines 842-843
            {"NI_Vector256_AsVector", "NI_Vector256_AsVector256"}
      [] first = "NI_Vector512_AsVector" ->  \* lines 883-884
            {"NI_Vector512_AsVector", "NI_Vector512_AsVector512"}
      [] first = "NI_Vector128_BitwiseAnd" ->  \* lines 929-934
            {"NI_Vector128_BitwiseAnd", "NI_Vector256_BitwiseAnd", "NI_Vector512_BitwiseAnd",
             "NI_Vector128_op_BitwiseAnd", "NI_Vector256_op_BitwiseAnd", "NI_Vector512_op_BitwiseAnd"}
      [] first = "NI_Vector128_BitwiseOr" ->  \* lines 945-950
            {"NI_Vector128_BitwiseOr", "NI_Vector256_BitwiseOr", "NI_Vector512_BitwiseOr",
             "NI_Vector128_op_BitwiseOr", "NI_Vector256_op_BitwiseOr", "NI_Vector512_op_BitwiseOr"}
      [] first = "NI_Vector128_Ceiling" ->  \* lines 961-962
            {"NI_Vector128_Ceiling", "NI_Vector256_Ceiling"}
      [] first = "NI_Vector128_ConditionalSelect" ->  \* lines 978-979
            {"NI_Vector128_ConditionalSelect", "NI_Vector256_ConditionalSelect"}
      [] first = "NI_Vector128_ConvertToDouble" ->  \* lines 991-998
            {"NI_Vector128_ConvertToDouble", "NI_Vector256_ConvertToDouble", "NI_Vector128_ConvertToInt64",
             "NI_Vector256_ConvertToInt64", "NI_Vector128_ConvertToUInt32", "NI_Vector256_ConvertToUInt32",
             "NI_Vector128_ConvertToUInt64", "NI_Vector256_ConvertToUInt64"}
      [] first = "NI_Vector128_ConvertToInt32" ->  \* lines 1005-1006
            {"NI_Vector128_ConvertToInt32", "NI_Vector256_ConvertToInt32"}
      [] first = "NI_Vector128_ConvertToSingle" ->  \* lines 1019-1020
            {"NI_Vector128_ConvertToSingle", "NI_Vector256_ConvertToSingle"}
      [] first = "NI_Vector128_Create" ->  \* lines 1039-1041
            {"NI_Vector128_Create", "NI_Vector256_Create", "NI_Vector512_Create"}
      [] first = "NI_Vector128_CreateScalar" ->  \* lines 1238-1240
            {"NI_Vector128_CreateScalar", "NI_Vector256_CreateScalar", "NI_Vector512_CreateScalar"}
      [] first = "NI_Vector128_CreateScalarUnsafe" ->  \* lines 1259-1261
            {"NI_Vector128_CreateScalarUnsafe", "NI_Vector256_CreateScalarUnsafe",
             "NI_Vector512_CreateScalarUnsafe"}
      [] first = "NI_Vector128_Divide" ->  \* lines 1280-1283
            {"NI_Vector128_Divide", "NI_Vector256_Divide", "NI_Vector128_op_Division", "NI_Vector256_op_Division"}
      [] first = "NI_Vector128_Dot" ->  \* lines 1308-1309
            {"NI_Vector128_Dot", "NI_Vector256_Dot"}
      [] first = "NI_Vector128_Equals" ->  \* lines 1346-1348
            {"NI_Vector128_Equals", "NI_Vector256_Equals", "NI_Vector512_Equals"}
      [] first = "NI_Vector512_EqualsAll" ->  \* lines 1362-1363
            {"NI_Vector512_EqualsAll", "NI_Vector512_op_Equality"}
      [] first = "NI_Vector128_EqualsAll" ->  \* lines 1377-1380
            {"NI_Vector128_EqualsAll", "NI_Vector256_EqualsAll", "NI_Vector128_op_Equality",
             "NI_Vector256_op_Equality"}
      [] first = "NI_Vector512_EqualsAny" ->  \* lines 1396-1396
            {"NI_Vector512_EqualsAny"}
      [] first = "NI_Vector128_EqualsAny" ->  \* lines 1411-1412
            {"NI_Vector128_EqualsAny", "NI_Vector256_EqualsAny"}
      [] first = "NI_Vector512_ExtractMostSignificantBits" ->  \* lines 1428-1428
            {"NI_Vector512_ExtractMostSignificantBits"}
      [] first = "NI_Vector128_ExtractMostSignificantBits" ->  \* lines 1446-1447
            {"NI_Vector128_ExtractMostSignificantBits", "NI_Vector256_ExtractMostSignificantBits"}
      [] first = "NI_Vector128_Floor" ->  \* lines 1566-1567
            {"NI_Vector128_Floor", "NI_Vector256_Floor"}
      [] first = "NI_Vector128_get_AllBitsSet" ->  \* lines 1583-1585
            {"NI_Vector128_get_AllBitsSet", "NI_Vector256_get_AllBitsSet", "NI_Vector512_get_AllBitsSet"}
      [] first = "NI_Vector128_get_One" ->  \* lines 1592-1594
            {"NI_Vector128_get_One", "NI_Vector256_get_One", "NI_Vector512_get_One"}
      [] first = "NI_Vector128_get_Zero" ->  \* lines 1601-1603
            {"NI_Vector128_get_Zero", "NI_Vector256_get_Zero", "NI_Vector512_get_Zero"}
      [] first = "NI_Vector128_GetElement" ->  \* lines 1610-1612
            {"NI_Vector128_GetElement", "NI_Vector256_GetElement", "NI_Vector512_GetElement"}
      [] first = "NI_Vector128_GreaterThan" ->  \* lines 1649-1650
            {"NI_Vector128_GreaterThan", "NI_Vector256_GreaterThan"}
      [] first = "NI_Vector128_GreaterThanAll" ->  \* lines 1664-1665
            {"NI_Vector128_GreaterThanAll", "NI_Vector256_GreaterThanAll"}
      [] first = "NI_Vector128_GreaterThanAny" ->  \* lines 1681-1682
            {"NI_Vector128_GreaterThanAny", "NI_Vector256_GreaterThanAny"}
      [] first = "NI_Vector128_GreaterThanOrEqual" ->  \* lines 1698-1699
            {"NI_Vector128_GreaterThanOrEqual", "NI_Vector256_GreaterThanOrEqual"}
      [] first = "NI_Vector128_GreaterThanOrEqualAll" ->  \* lines 1713-1714
            {"NI_Vector128_GreaterThanOrEqualAll", "NI_Vector256_GreaterThanOrEqualAll"}
      [] first = "NI_Vector128_GreaterThanOrEqualAny" ->  \* lines 1730-1731
            {"NI_Vector128_GreaterThanOrEqualAny", "NI_Vector256_GreaterThanOrEqualAny"}
      [] first = "NI_Vector128_LessThan" ->  \* lines 1747-1748
            {"NI_Vector128_LessThan", "NI_Vector256_LessThan"}
      [] first = "NI_Vector128_LessThanAll" ->  \* lines 1762-1763
            {"NI_Vector128_LessThanAll", "NI_Vector256_LessThanAll"}
      [] first = "NI_Vector128_LessThanAny" ->  \* lines 1779-1780
            {"NI_Vector128_LessThanAny", "NI_Vector256_LessThanAny"}
      [] first = "NI_Vector128_LessThanOrEqual" ->  \* lines 1796-1797
            {"NI_Vector128_LessThanOrEqual", "NI_Vector256_LessThanOrEqual"}
      [] first = "NI_Vector128_LessThanOrEqualAll" ->  \* lines 1811-1812
            {"NI_Vector128_LessThanOrEqualAll", "NI_Vector256_LessThanOrEqualAll"}
      [] first = "NI_Vector128_LessThanOrEqualAny" ->  \* lines 1828-1829
            {"NI_Vector128_LessThanOrEqualAny", "NI_Vector256_LessThanOrEqualAny"}
      [] first = "NI_SSE_LoadVector128" ->  \* lines 1845-1855
            {"NI_SSE_LoadVector128", "NI_SSE2_LoadVector128", "NI_AVX_LoadVector256", "NI_AVX512F_LoadVector512",
             "NI_AVX512BW_LoadVector512", "NI_Vector128_Load", "NI_Vector256_Load", "NI_Vector512_Load",
             "NI_Vector128_LoadUnsafe", "NI_Vector256_LoadUnsafe", "NI_Vector512_LoadUnsafe"}
      [] first = "NI_Vector128_LoadAligned" ->  \* lines 1885-1887
            {"NI_Vector128_LoadAligned", "NI_Vector256_LoadAligned", "NI_Vector512_LoadAligned"}
      [] first = "NI_Vector128_LoadAlignedNonTemporal" ->  \* lines 1903-1905
            {"NI_Vector128_LoadAlignedNonTemporal", "NI_Vector256_LoadAlignedNonTemporal",
             "NI_Vector512_LoadAlignedNonTemporal"}
      [] first = "NI_Vector128_Max" ->  \* lines 1921-1922
            {"NI_Vector128_Max", "NI_Vector256_Max"}
      [] first = "NI_Vector128_Min" ->  \* lines 1936-1937
            {"NI_Vector128_Min", "NI_Vector256_Min"}
      [] first = "NI_Vector128_Multiply" ->  \* lines 1951-1954
            {"NI_Vector128_Multiply", "NI_Vector256_Multiply", "NI_Vector128_op_Multiply",
             "NI_Vector256_op_Multiply"}
      [] first = "NI_Vector128_Narrow" ->  \* lines 2001-2003
            {"NI_Vector128_Narrow", "NI_Vector256_Narrow", "NI_Vector512_Narrow"}
      [] first = "NI_Vector128_Negate" ->  \* lines 2019-2022
            {"NI_Vector128_Negate", "NI_Vector256_Negate", "NI_Vector128_op_UnaryNegation",
             "NI_Vector256_op_UnaryNegation"}
      [] first = "NI_Vector128_OnesComplement" ->  \* lines 2034-2039
            {"NI_Vector128_OnesComplement", "NI_Vector256_OnesComplement", "NI_Vector512_OnesComplement",
             "NI_Vector128_op_OnesComplement", "NI_Vector256_op_OnesComplement", "NI_Vector512_op_OnesComplement"}
      [] first = "NI_Vector128_op_Inequality" ->  \* lines 2047-2048
            {"NI_Vector128_op_Inequality", "NI_Vector256_op_Inequality"}
      [] first = "NI_Vector512_op_Inequality" ->  \* lines 2064-2064
            {"NI_Vector512_op_Inequality"}
      [] first = "NI_Vector128_op_UnaryPlus" ->  \* lines 2081-2082
            {"NI_Vector128_op_UnaryPlus", "NI_Vector256_op_UnaryPlus"}
      [] first = "NI_Vector128_Subtract" ->  \* lines 2089-2094
            {"NI_Vector128_Subtract", "NI_Vector256_Subtract", "NI_Vector512_Subtract",
             "NI_Vector128_op_Subtraction", "NI_Vector256_op_Subtraction", "NI_Vector512_op_Subtraction"}
      [] first = "NI_Vector128_ShiftLeft" ->  \* lines 2108-2111
            {"NI_Vector128_ShiftLeft", "NI_Vector256_ShiftLeft", "NI_Vector128_op_LeftShift",
             "NI_Vector256_op_LeftShift"}
      [] first = "NI_Vector128_ShiftRightArithmetic" ->  \* lines 2131-2134
            {"NI_Vector128_ShiftRightArithmetic", "NI_Vector256_ShiftRightArithmetic",
             "NI_Vector128_op_RightShift", "NI_Vector256_op_RightShift"}
      [] first = "NI_Vector128_ShiftRightLogical" ->  \* lines 2165-2168
            {"NI_Vector128_ShiftRightLogical", "NI_Vector256_ShiftRightLogical",
             "NI_Vector128_op_UnsignedRightShift", "NI_Vector256_op_UnsignedRightShift"}
      [] first = "NI_Vector128_Shuffle" ->  \* lines 2188-2189
            {"NI_Vector128_Shuffle", "NI_Vector256_Shuffle"}
      [] first = "NI_Vector128_Sqrt" ->  \* lines 2269-2270
            {"NI_Vector128_Sqrt", "NI_Vector256_Sqrt"}
      [] first = "NI_SSE_Store" ->  \* lines 2282-2286
            {"NI_SSE_Store", "NI_SSE2_Store", "NI_AVX_Store", "NI_AVX512F_Store", "NI_AVX512BW_Store"}
      [] first = "NI_Vector128_Store" ->  \* lines 2306-2311
            {"NI_Vector128_Store", "NI_Vector256_Store", "NI_Vector512_Store", "NI_Vector128_StoreUnsafe",
             "NI_Vector256_StoreUnsafe", "NI_Vector512_StoreUnsafe"}
      [] first = "NI_Vector128_StoreAligned" ->  \* lines 2352-2354
            {"NI_Vector128_StoreAligned", "NI_Vector256_StoreAligned", "NI_Vector512_StoreAligned"}
      [] first = "NI_Vector128_StoreAlignedNonTemporal" ->  \* lines 2378-2380
            {"NI_Vector128_StoreAlignedNonTemporal", "NI_Vector256_StoreAlignedNonTemporal",
             "NI_Vector512_StoreAlignedNonTemporal"}
      [] first = "NI_Vector128_Sum" ->  \* lines 2404-2405
            {"NI_Vector128_Sum", "NI_Vector256_Sum"}
      [] first = "NI_Vector128_ToScalar" ->  \* lines 2439-2441
            {"NI_Vector128_ToScalar", "NI_Vector256_ToScalar", "NI_Vector512_ToScalar"}
      [] first = "NI_Vector128_ToVector256" ->  \* lines 2459-2460
            {"NI_Vector128_ToVector256", "NI_Vector128_ToVector256Unsafe"}
      [] first = "NI_Vector256_GetLower" ->  \* lines 2470-2470
            {"NI_Vector256_GetLower"}
      [] first = "NI_Vector256_GetUpper" ->  \* lines 2480-2480
            {"NI_Vector256_GetUpper"}
      [] first = "NI_Vector512_GetLower" ->  \* lines 2490-2490
            {"NI_Vector512_GetLower"}
      [] first = "NI_Vector512_GetUpper" ->  \* lines 2500-2500
            {"NI_Vector512_GetUpper"}
      [] first = "NI_Vector128_ToVector512" ->  \* lines 2510-2513
            {"NI_Vector128_ToVector512", "NI_Vector256_ToVector512", "NI_Vector256_ToVector512Unsafe",
             "NI_Vector512_GetLower128"}
      [] first = "NI_Vector128_WidenLower" ->  \* lines 2523-2525
            {"NI_Vector128_WidenLower", "NI_Vector256_WidenLower", "NI_Vector512_WidenLower"}
      [] first = "NI_Vector128_WidenUpper" ->  \* lines 2540-2542
            {"NI_Vector128_WidenUpper", "NI_Vector256_WidenUpper", "NI_Vector512_WidenUpper"}
      [] first = "NI_Vector128_WithElement" ->  \* lines 2557-2559
            {"NI_Vector128_WithElement", "NI_Vector256_WithElement", "NI_Vector512_WithElement"}
      [] first = "NI_Vector256_WithLower" ->  \* lines 2620-2620
            {"NI_Vector256_WithLower"}
      [] first = "NI_Vector256_WithUpper" ->  \* lines 2631-2631
            {"NI_Vector256_WithUpper"}
      [] first = "NI_Vector512_WithLower" ->  \* lines 2642-2642
            {"NI_Vector512_WithLower"}
      [] first = "NI_Vector512_WithUpper" ->  \* lines 2653-2653
            {"NI_Vector512_WithUpper"}
      [] first = "NI_Vector128_Xor" ->  \* lines 2664-2669
            {"NI_Vector128_Xor", "NI_Vector256_Xor", "NI_Vector512_Xor", "NI_Vector128_op_ExclusiveOr",
             "NI_Vector256_op_ExclusiveOr", "NI_Vector512_op_ExclusiveOr"}
      [] first = "NI_X86Base_Pause" ->  \* lines 2680-2681
            {"NI_X86Base_Pause", "NI_X86Serialize_Serialize"}
      [] first = "NI_X86Base_DivRem" ->  \* lines 2691-2692
            {"NI_X86Base_DivRem", "NI_X86Base_X64_DivRem"}
      [] first = "NI_SSE_CompareScalarGreaterThan" ->  \* lines 2713-2716
            {"NI_SSE_CompareScalarGreaterThan", "NI_SSE_CompareScalarGreaterThanOrEqual",
             "NI_SSE_CompareScalarNotGreaterThan", "NI_SSE_CompareScalarNotGreaterThanOrEqual"}
      [] first = "NI_SSE_Prefetch0" ->  \* lines 2756-2759
            {"NI_SSE_Prefetch0", "NI_SSE_Prefetch1", "NI_SSE_Prefetch2", "NI_SSE_PrefetchNonTemporal"}
      [] first = "NI_SSE_StoreFence" ->  \* lines 2768-2768
            {"NI_SSE_StoreFence"}
      [] first = "NI_SSE2_CompareScalarGreaterThan" ->  \* lines 2774-2777
            {"NI_SSE2_CompareScalarGreaterThan", "NI_SSE2_CompareScalarGreaterThanOrEqual",
             "NI_SSE2_CompareScalarNotGreaterThan", "NI_SSE2_CompareScalarNotGreaterThanOrEqual"}
      [] first = "NI_SSE2_LoadFence" ->  \* lines 2816-2817
            {"NI_SSE2_LoadFence", "NI_SSE2_MemoryFence"}
      [] first = "NI_SSE2_StoreNonTemporal" ->  \* lines 2827-2827
            {"NI_SSE2_StoreNonTemporal"}
      [] first = "NI_AVX2_PermuteVar8x32" ->  \* lines 2842-2842
            {"NI_AVX2_PermuteVar8x32"}
      [] first = "NI_AVX2_GatherMaskVector128" ->  \* lines 2858-2859
            {"NI_AVX2_GatherMaskVector128", "NI_AVX2_GatherMaskVector256"}
      [] first = "NI_BMI2_ZeroHighBits" ->  \* lines 2901-2902
            {"NI_BMI2_ZeroHighBits", "NI_BMI2_X64_ZeroHighBits"}
      [] first = "NI_BMI1_BitFieldExtract" ->  \* lines 2913-2914
            {"NI_BMI1_BitFieldExtract", "NI_BMI1_X64_BitFieldExtract"}


\* every intrinsic that has a case in the switch
SwitchIds ==
    CaseLabels("NI_Vector128_Abs") \cup CaseLabels("NI_Vector128_Add") \cup CaseLabels("NI_Vector128_AndNot") \cup
    CaseLabels("NI_Vector128_As") \cup CaseLabels("NI_Vector128_AsVector") \cup CaseLabels("NI_Vector128_AsVector2") \cup
    CaseLabels("NI_Vector128_AsVector128") \cup CaseLabels("NI_Vector256_AsVector") \cup CaseLabels("NI_Vector512_AsVector")
    \cup CaseLabels("NI_Vector128_BitwiseAnd") \cup CaseLabels("NI_Vector128_BitwiseOr") \cup
    CaseLabels("NI_Vector128_Ceiling") \cup CaseLabels("NI_Vector128_ConditionalSelect") \cup
    CaseLabels("NI_Vector128_ConvertToDouble") \cup CaseLabels("NI_Vector128_ConvertToInt32") \cup
    CaseLabels("NI_Vector128_ConvertToSingle") \cup CaseLabels("NI_Vector128_Create") \cup
    CaseLabels("NI_Vector128_CreateScalar") \cup CaseLabels("NI_Vector128_CreateScalarUnsafe") \cup
    CaseLabels("NI_Vector128_Divide") \cup CaseLabels("NI_Vector128_Dot") \cup CaseLabels("NI_Vector128_Equals") \cup
    CaseLabels("NI_Vector512_EqualsAll") \cup CaseLabels("NI_Vector128_EqualsAll") \cup CaseLabels("NI_Vector512_EqualsAny")
    \cup CaseLabels("NI_Vector128_EqualsAny") \cup CaseLabels("NI_Vector512_ExtractMostSignificantBits") \cup
    CaseLabels("NI_Vector128_ExtractMostSignificantBits") \cup CaseLabels("NI_Vector128_Floor") \cup
    CaseLabels("NI_Vector128_get_AllBitsSet") \cup CaseLabels("NI_Vector128_get_One") \cup
    CaseLabels("NI_Vector128_get_Zero") \cup CaseLabels("NI_Vector128_GetElement") \cup
    CaseLabels("NI_Vector128_GreaterThan") \cup CaseLabels("NI_Vector128_GreaterThanAll") \cup
    CaseLabels("NI_Vector128_GreaterThanAny") \cup CaseLabels("NI_Vector128_GreaterThanOrEqual") \cup
    CaseLabels("NI_Vector128_GreaterThanOrEqualAll") \cup CaseLabels("NI_Vector128_GreaterThanOrEqualAny") \cup
    CaseLabels("NI_Vector128_LessThan") \cup CaseLabels("NI_Vector128_LessThanAll") \cup
    CaseLabels("NI_Vector128_LessThanAny") \cup CaseLabels("NI_Vector128_LessThanOrEqual") \cup
    CaseLabels("NI_Vector128_LessThanOrEqualAll") \cup CaseLabels("NI_Vector128_LessThanOrEqualAny") \cup
    CaseLabels("NI_SSE_LoadVector128") \cup CaseLabels("NI_Vector128_LoadAligned") \cup
    CaseLabels("NI_Vector128_LoadAlignedNonTemporal") \cup CaseLabels("NI_Vector128_Max") \cup CaseLabels("NI_Vector128_Min")
    \cup CaseLabels("NI_Vector128_Multiply") \cup CaseLabels("NI_Vector128_Narrow") \cup CaseLabels("NI_Vector128_Negate")
    \cup CaseLabels("NI_Vector128_OnesComplement") \cup CaseLabels("NI_Vector128_op_Inequality") \cup
    CaseLabels("NI_Vector512_op_Inequality") \cup CaseLabels("NI_Vector128_op_UnaryPlus") \cup
    CaseLabels("NI_Vector128_Subtract") \cup CaseLabels("NI_Vector128_ShiftLeft") \cup
    CaseLabels("NI_Vector128_ShiftRightArithmetic") \cup CaseLabels("NI_Vector128_ShiftRightLogical") \cup
    CaseLabels("NI_Vector128_Shuffle") \cup CaseLabels("NI_Vector128_Sqrt") \cup CaseLabels("NI_SSE_Store") \cup
    CaseLabels("NI_Vector128_Store") \cup CaseLabels("NI_Vector128_StoreAligned") \cup
    CaseLabels("NI_Vector128_StoreAlignedNonTemporal") \cup CaseLabels("NI_Vector128_Sum") \cup
    CaseLabels("NI_Vector128_ToScalar") \cup CaseLabels("NI_Vector128_ToVector256") \cup CaseLabels("NI_Vector256_GetLower")
    \cup CaseLabels("NI_Vector256_GetUpper") \cup CaseLabels("NI_Vector512_GetLower") \cup
    CaseLabels("NI_Vector512_GetUpper") \cup CaseLabels("NI_Vector128_ToVector512") \cup
    CaseLabels("NI_Vector128_WidenLower") \cup CaseLabels("NI_Vector128_WidenUpper") \cup
    CaseLabels("NI_Vector128_WithElement") \cup CaseLabels("NI_Vector256_WithLower") \cup
    CaseLabels("NI_Vector256_WithUpper") \cup CaseLabels("NI_Vector512_WithLower") \cup CaseLabels("NI_Vector512_WithUpper")
    \cup CaseLabels("NI_Vector128_Xor") \cup CaseLabels("NI_X86Base_Pause") \cup CaseLabels("NI_X86Base_DivRem") \cup
    CaseLabels("NI_SSE_CompareScalarGreaterThan") \cup CaseLabels("NI_SSE_Prefetch0") \cup CaseLabels("NI_SSE_StoreFence")
    \cup CaseLabels("NI_SSE2_CompareScalarGreaterThan") \cup CaseLabels("NI_SSE2_LoadFence") \cup
    CaseLabels("NI_SSE2_StoreNonTemporal") \cup CaseLabels("NI_AVX2_PermuteVar8x32") \cup
    CaseLabels("NI_AVX2_GatherMaskVector128") \cup CaseLabels("NI_BMI2_ZeroHighBits") \cup
    CaseLabels("NI_BMI1_BitFieldExtract")

\* intrinsics of the 16-byte vector classes
Size16Ids ==
    {"NI_Vector128_Abs", "NI_Vector128_Add", "NI_Vector128_op_Addition", "NI_Vector128_AndNot",
     "NI_Vector128_As", "NI_Vector128_AsByte", "NI_Vector128_AsDouble", "NI_Vector128_AsInt16",
     "NI_Vector128_AsInt32", "NI_Vector128_AsInt64", "NI_Vector128_AsNInt", "NI_Vector128_AsNUInt",
     "NI_Vector128_AsSByte", "NI_Vector128_AsSingle", "NI_Vector128_AsUInt16", "NI_Vector128_AsUInt32",
     "NI_Vector128_AsUInt64", "NI_Vector128_AsVector4", "NI_Vector128_AsVector",
     "NI_Vector128_AsVector2", "NI_Vector128_AsVector3", "NI_Vector128_AsVector128",
     "NI_Vector128_BitwiseAnd", "NI_Vector128_op_BitwiseAnd", "NI_Vector128_BitwiseOr",
     "NI_Vector128_op_BitwiseOr", "NI_Vector128_Ceiling", "NI_Vector128_ConditionalSelect",
     "NI_Vector128_ConvertToDouble", "NI_Vector128_ConvertToInt64", "NI_Vector128_ConvertToUInt32",
     "NI_Vector128_ConvertToUInt64", "NI_Vector128_ConvertToInt32", "NI_Vector128_ConvertToSingle",
     "NI_Vector128_Create", "NI_Vector128_CreateScalar", "NI_Vector128_CreateScalarUnsafe",
     "NI_Vector128_Divide", "NI_Vector128_op_Division", "NI_Vector128_Dot", "NI_Vector128_Equals",
     "NI_Vector128_EqualsAll", "NI_Vector128_op_Equality", "NI_Vector128_EqualsAny",
     "NI_Vector128_ExtractMostSignificantBits", "NI_Vector128_Floor", "NI_Vector128_get_AllBitsSet",
     "NI_Vector128_get_One", "NI_Vector128_get_Zero", "NI_Vector128_GetElement",
     "NI_Vector128_GreaterThan", "NI_Vector128_GreaterThanAll", "NI_Vector128_GreaterThanAny",
     "NI_Vector128_GreaterThanOrEqual", "NI_Vector128_GreaterThanOrEqualAll",
     "NI_Vector128_GreaterThanOrEqualAny", "NI_Vector128_LessThan", "NI_Vector128_LessThanAll",
     "NI_Vector128_LessThanAny", "NI_Vector128_LessThanOrEqual", "NI_Vector128_LessThanOrEqualAll",
     "NI_Vector128_LessThanOrEqualAny", "NI_SSE_LoadVector128", "NI_SSE2_LoadVector128",
     "NI_Vector128_Load", "NI_Vector128_LoadUnsafe", "NI_Vector128_LoadAligned",
     "NI_Vector128_LoadAlignedNonTemporal", "NI_Vector128_Max", "NI_Vector128_Min",
     "NI_Vector128_Multiply", "NI_Vector128_op_Multiply", "NI_Vector128_Narrow", "NI_Vector128_Negate",
     "NI_Vector128_op_UnaryNegation", "NI_Vector128_OnesComplement", "NI_Vector128_op_OnesComplement",
     "NI_Vector128_op_Inequality", "NI_Vector128_op_UnaryPlus", "NI_Vector128_Subtract",
     "NI_Vector128_op_Subtraction", "NI_Vector128_ShiftLeft", "NI_Vector128_op_LeftShift",
     "NI_Vector128_ShiftRightArithmetic", "NI_Vector128_op_RightShift", "NI_Vector128_ShiftRightLogical",
     "NI_Vector128_op_UnsignedRightShift", "NI_Vector128_Shuffle", "NI_Vector128_Sqrt", "NI_SSE_Store",
     "NI_SSE2_Store", "NI_Vector128_Store", "NI_Vector128_StoreUnsafe", "NI_Vector128_StoreAligned",
     "NI_Vector128_StoreAlignedNonTemporal", "NI_Vector128_Sum", "NI_Vector128_ToScalar",
     "NI_Vector128_ToVector256", "NI_Vector128_ToVector256Unsafe", "NI_Vector128_ToVector512",
     "NI_Vector128_WidenLower", "NI_Vector128_WidenUpper", "NI_Vector128_WithElement",
     "NI_Vector128_Xor", "NI_Vector128_op_ExclusiveOr", "NI_SSE_CompareScalarGreaterThan",
     "NI_SSE_CompareScalarGreaterThanOrEqual", "NI_SSE_CompareScalarNotGreaterThan",
     "NI_SSE_CompareScalarNotGreaterThanOrEqual", "NI_SSE2_CompareScalarGreaterThan",
     "NI_SSE2_CompareScalarGreaterThanOrEqual", "NI_SSE2_CompareScalarNotGreaterThan",
     "NI_SSE2_CompareScalarNotGreaterThanOrEqual", "NI_AVX2_GatherMaskVector128"}

\* intrinsics of the 32-byte vector classes
Size32Ids ==
    {"NI_Vector256_Abs", "NI_Vector256_Add", "NI_Vector256_op_Addition", "NI_Vector256_AndNot",
     "NI_Vector256_As", "NI_Vector256_AsByte", "NI_Vector256_AsDouble", "NI_Vector256_AsInt16",
     "NI_Vector256_AsInt32", "NI_Vector256_AsInt64", "NI_Vector256_AsNInt", "NI_Vector256_AsNUInt",
     "NI_Vector256_AsSByte", "NI_Vector256_AsSingle", "NI_Vector256_AsUInt16", "NI_Vector256_AsUInt32",
     "NI_Vector256_AsUInt64", "NI_Vector256_AsVector", "NI_Vector256_AsVector256",
     "NI_Vector256_BitwiseAnd", "NI_Vector256_op_BitwiseAnd", "NI_Vector256_BitwiseOr",
     "NI_Vector256_op_BitwiseOr", "NI_Vector256_Ceiling", "NI_Vector256_ConditionalSelect",
     "NI_Vector256_ConvertToDouble", "NI_Vector256_ConvertToInt64", "NI_Vector256_ConvertToUInt32",
     "NI_Vector256_ConvertToUInt64", "NI_Vector256_ConvertToInt32", "NI_Vector256_ConvertToSingle",
     "NI_Vector256_Create", "NI_Vector256_CreateScalar", "NI_Vector256_CreateScalarUnsafe",
     "NI_Vector256_Divide", "NI_Vector256_op_Division", "NI_Vector256_Dot", "NI_Vector256_Equals",
     "NI_Vector256_EqualsAll", "NI_Vector256_op_Equality", "NI_Vector256_EqualsAny",
     "NI_Vector256_ExtractMostSignificantBits", "NI_Vector256_Floor", "NI_Vector256_get_AllBitsSet",
     "NI_Vector256_get_One", "NI_Vector256_get_Zero", "NI_Vector256_GetElement",
     "NI_Vector256_GreaterThan", "NI_Vector256_GreaterThanAll", "NI_Vector256_GreaterThanAny",
     "NI_Vector256_GreaterThanOrEqual", "NI_Vector256_GreaterThanOrEqualAll",
     "NI_Vector256_GreaterThanOrEqualAny", "NI_Vector256_LessThan", "NI_Vector256_LessThanAll",
     "NI_Vector256_LessThanAny", "NI_Vector256_LessThanOrEqual", "NI_Vector256_LessThanOrEqualAll",
     "NI_Vector256_LessThanOrEqualAny", "NI_AVX_LoadVector256", "NI_Vector256_Load",
     "NI_Vector256_LoadUnsafe", "NI_Vector256_LoadAligned", "NI_Vector256_LoadAlignedNonTemporal",
     "NI_Vector256_Max", "NI_Vector256_Min", "NI_Vector256_Multiply", "NI_Vector256_op_Multiply",
     "NI_Vector256_Narrow", "NI_Vector256_Negate", "NI_Vector256_op_UnaryNegation",
     "NI_Vector256_OnesComplement", "NI_Vector256_op_OnesComplement", "NI_Vector256_op_Inequality",
     "NI_Vector256_op_UnaryPlus", "NI_Vector256_Subtract", "NI_Vector256_op_Subtraction",
     "NI_Vector256_ShiftLeft", "NI_Vector256_op_LeftShift", "NI_Vector256_ShiftRightArithmetic",
     "NI_Vector256_op_RightShift", "NI_Vector256_ShiftRightLogical",
     "NI_Vector256_op_UnsignedRightShift", "NI_Vector256_Shuffle", "NI_Vector256_Sqrt", "NI_AVX_Store",
     "NI_Vector256_Store", "NI_Vector256_StoreUnsafe", "NI_Vector256_StoreAligned",
     "NI_Vector256_StoreAlignedNonTemporal", "NI_Vector256_Sum", "NI_Vector256_ToScalar",
     "NI_Vector256_GetLower", "NI_Vector256_GetUpper", "NI_Vector256_ToVector512",
     "NI_Vector256_ToVector512Unsafe", "NI_Vector256_WidenLower", "NI_Vector256_WidenUpper",
     "NI_Vector256_WithElement", "NI_Vector256_WithLower", "NI_Vector256_WithUpper", "NI_Vector256_Xor",
     "NI_Vector256_op_ExclusiveOr", "NI_AVX2_PermuteVar8x32", "NI_AVX2_GatherMaskVector256"}

\* intrinsics of the 64-byte vector classes
Size64Ids ==
    {"NI_Vector512_Add", "NI_Vector512_op_Addition", "NI_Vector512_AndNot", "NI_Vector512_As",
     "NI_Vector512_AsByte", "NI_Vector512_AsDouble", "NI_Vector512_AsInt16", "NI_Vector512_AsInt32",
     "NI_Vector512_AsInt64", "NI_Vector512_AsNInt", "NI_Vector512_AsNUInt", "NI_Vector512_AsSByte",
     "NI_Vector512_AsSingle", "NI_Vector512_AsUInt16", "NI_Vector512_AsUInt32", "NI_Vector512_AsUInt64",
     "NI_Vector512_AsVector", "NI_Vector512_AsVector512", "NI_Vector512_BitwiseAnd",
     "NI_Vector512_op_BitwiseAnd", "NI_Vector512_BitwiseOr", "NI_Vector512_op_BitwiseOr",
     "NI_Vector512_Create", "NI_Vector512_CreateScalar", "NI_Vector512_CreateScalarUnsafe",
     "NI_Vector512_Equals", "NI_Vector512_EqualsAll", "NI_Vector512_op_Equality",
     "NI_Vector512_EqualsAny", "NI_Vector512_ExtractMostSignificantBits", "NI_Vector512_get_AllBitsSet",
     "NI_Vector512_get_One", "NI_Vector512_get_Zero", "NI_Vector512_GetElement",
     "NI_AVX512F_LoadVector512", "NI_AVX512BW_LoadVector512", "NI_Vector512_Load",
     "NI_Vector512_LoadUnsafe", "NI_Vector512_LoadAligned", "NI_Vector512_LoadAlignedNonTemporal",
     "NI_Vector512_Narrow", "NI_Vector512_OnesComplement", "NI_Vector512_op_OnesComplement",
     "NI_Vector512_op_Inequality", "NI_Vector512_Subtract", "NI_Vector512_op_Subtraction",
     "NI_AVX512F_Store", "NI_AVX512BW_Store", "NI_Vector512_Store", "NI_Vector512_StoreUnsafe",
     "NI_Vector512_StoreAligned", "NI_Vector512_StoreAlignedNonTemporal", "NI_Vector512_ToScalar",
     "NI_Vector512_GetLower", "NI_Vector512_GetUpper", "NI_Vector512_GetLower128",
     "NI_Vector512_WidenLower", "NI_Vector512_WidenUpper", "NI_Vector512_WithElement",
     "NI_Vector512_WithLower", "NI_Vector512_WithUpper", "NI_Vector512_Xor",
     "NI_Vector512_op_ExclusiveOr"}

---------------------------------------------------------------------------
(* Compiler::impSpecialIntrinsic, one definition per case of its switch.   *)
(* c is the call: intrinsic, numArgs, simdBaseType, simdSize, stack and    *)
(* the compilation's isaFlags, regLen, x86.                                *)

RECURSIVE impSpecialIntrinsic(_)

\* "return impSpecialIntrinsic(id, clsHnd, method, sig, simdBaseJitType, retType, simdSize)":
\* the case hands the call over to the case of id
Redispatch(c, id, size) ==
    LET out == impSpecialIntrinsic([c EXCEPT !.intrinsic = id, !.simdSize = size])
    IN  [out EXCEPT !.nested = <<id>> \o @]

\* node constructors taking the call's base type and size
Simd(k, oper, ops, c) == Node(k, oper, ops, c.simdBaseType, c.simdSize)


\* Avx2Gate with the element-kind test inverted: integer vectors are exempt
Avx2Gate_integralExempt(c) ==
    (c.simdSize # 32) \/ varTypeIsIntegral(c.simdBaseType)
        \/ compExactlyDependsOn(c, "InstructionSet_AVX2")

\* Avx2Gate without the floating-point exemption
Avx2Gate_noFloatingExemption(c) ==
    (c.simdSize # 32) \/ compExactlyDependsOn(c, "InstructionSet_AVX2")

\* the gate shared by the element-wise cases: a 32-byte integer vector needs AVX2
Avx2Gate(c) ==
    (c.simdSize # 32) \/ varTypeIsFloating(c.simdBaseType)
        \/ compExactlyDependsOn(c, "InstructionSet_AVX2")

\* the gate of the cases that need AVX2 for every 32-byte vector
Avx2GateAnyType(c) == (c.simdSize # 32) \/ compExactlyDependsOn(c, "InstructionSet_AVX2")

\* "op1 = pop; retNode = k(op1)"
Unary(k, oper, c) ==
    LET p == impSIMDPopStack(Frame(c))
    IN  Ret(Simd(k, oper, <<p.val>>, c), p.f)

\* "op2 = pop; op1 = pop; retNode = k(op1, op2)"
Binary(k, oper, c) ==
    LET p == Pop2(Frame(c))
    IN  Ret(Simd(k, oper, <<p.op1, p.op2>>, c), p.f)

case_NI_Vector128_Abs(c) ==
    Require(c.numArgs = 1, Frame(c),
        IF (c.simdSize # 32) \/ varTypeIsFloating(c.simdBaseType) \/ varTypeIsUnsigned(c.simdBaseType)
              \/ compExactlyDependsOn(c, "InstructionSet_AVX2")
        THEN Unary("gtNewSimdAbsNode", "", c)
        ELSE Ret(NullNode, Frame(c)))


\* the Add case without its AVX2 test
case_NI_Vector128_Add_ungated(c) ==
    Require(c.numArgs = 2, Frame(c), Binary("gtNewSimdBinOpNode", "GT_ADD", c))

case_NI_Vector128_Add(c) ==
    Require(c.numArgs = 2, Frame(c),
        IF Avx2Gate(c)
        THEN Binary("gtNewSimdBinOpNode", "GT_ADD", c)
        ELSE Ret(NullNode, Frame(c)))

case_NI_Vector128_AndNot(c) ==
    Require(c.numArgs = 2, Frame(c),
        LET f == impSpillSideEffect(Frame(c), esStackDepth(Frame(c)) - 2)
            p == Pop2(f)
        IN  Ret(Simd("gtNewSimdBinOpNode", "GT_AND_NOT", <<p.op1, p.op2>>, c), p.f))

\* the cast is folded away: the operand itself is the result
FoldCast(c) ==
    LET p == impSIMDPopStack(Frame(c))
    IN  Ret(p.val, p.f)

case_NI_Vector128_AsVector(c) ==
    Require(c.numArgs = 1, Frame(c),
        IF getSIMDVectorRegisterByteLength(c) = YMM_REGSIZE_BYTES
        THEN Redispatch(c, "NI_Vector128_ToVector256", c.simdSize)
        ELSE Require(getSIMDVectorRegisterByteLength(c) = XMM_REGSIZE_BYTES, Frame(c), FoldCast(c)))

\* the AsVector128 case handing a 32-byte argument over to the case of Vector256.AsVector
case_NI_Vector128_AsVector128_viaAsVector(c) ==
    Require(c.numArgs = 1, Frame(c),
        CASE c.simdSize = 8 ->
                Require(c.simdBaseType = "TYP_FLOAT", Frame(c),
                    LET p == impSIMDPopStack(Frame(c))
                        w1 == Node("gtNewSimdWithElementNode", "",
                                   <<p.val, gtNewIconNode(2), Node("gtNewZeroConNode", "", <<>>, "TYP_FLOAT", 0)>>,
                                   c.simdBaseType, 16)
                    IN  IF IsCnsVec(p.val)
                        THEN Ret([p.val EXCEPT !.size = 16,
                                               !.vval = <<p.val.vval[1], p.val.vval[2], 0, 0>>], p.f)
                        ELSE Ret(Node("gtNewSimdWithElementNode", "",
                                      <<w1, gtNewIconNode(3), Node("gtNewZeroConNode", "", <<>>, "TYP_FLOAT", 0)>>,
                                      c.simdBaseType, 16), p.f))
          [] c.simdSize = 12 ->
                Require(c.simdBaseType = "TYP_FLOAT", Frame(c),
                    LET p == impSIMDPopStack(Frame(c))
                    IN  IF IsCnsVec(p.val)
                        THEN Ret([p.val EXCEPT !.size = 16,
                                               !.vval = <<p.val.vval[1], p.val.vval[2], p.val.vval[3], 0>>], p.f)
                        ELSE Ret(Node("gtNewSimdWithElementNode", "",
                                      <<p.val, gtNewIconNode(3), Node("gtNewZeroConNode", "", <<>>, "TYP_FLOAT", 0)>>,
                                      c.simdBaseType, 16), p.f))
          [] c.simdSize = 16 -> FoldCast(c)
          [] c.simdSize = 32 -> Redispatch(c, "NI_Vector256_AsVector", c.simdSize)
          [] OTHER -> ContractFailure(Frame(c)))

\* c.simdSize is the size of the first argument's class, which the case reads
\* into simdSize before its first use
case_NI_Vector128_AsVector128(c) ==
    Require(c.numArgs = 1, Frame(c),
        CASE c.simdSize = 8 ->
                Require(c.simdBaseType = "TYP_FLOAT", Frame(c),
                    LET p == impSIMDPopStack(Frame(c))
                        w1 == Node("gtNewSimdWithElementNode", "",
                                   <<p.val, gtNewIconNode(2), Node("gtNewZeroConNode", "", <<>>, "TYP_FLOAT", 0)>>,
                                   c.simdBaseType, 16)
                    IN  IF IsCnsVec(p.val)
                        THEN Ret([p.val EXCEPT !.size = 16,
                                               !.vval = <<p.val.vval[1], p.val.vval[2], 0, 0>>], p.f)
                        ELSE Ret(Node("gtNewSimdWithElementNode", "",
                                      <<w1, gtNewIconNode(3), Node("gtNewZeroConNode", "", <<>>, "TYP_FLOAT", 0)>>,
                                      c.simdBaseType, 16), p.f))
          [] c.simdSize = 12 ->
                Require(c.simdBaseType = "TYP_FLOAT", Frame(c),
                    LET p == impSIMDPopStack(Frame(c))
                    IN  IF IsCnsVec(p.val)
                        THEN Ret([p.val EXCEPT !.size = 16,
                                               !.vval = <<p.val.vval[1], p.val.vval[2], p.val.vval[3], 0>>], p.f)
                        ELSE Ret(Node("gtNewSimdWithElementNode", "",
                                      <<p.val, gtNewIconNode(3), Node("gtNewZeroConNode", "", <<>>, "TYP_FLOAT", 0)>>,
                                      c.simdBaseType, 16), p.f))
          [] c.simdSize = 16 -> FoldCast(c)
          [] c.simdSize = 32 -> Redispatch(c, "NI_Vector256_GetLower", c.simdSize)
          [] OTHER -> ContractFailure(Frame(c)))

case_NI_Vector256_AsVector(c) ==
    Require(c.numArgs = 1, Frame(c),
        IF getSIMDVectorRegisterByteLength(c) = YMM_REGSIZE_BYTES
        THEN FoldCast(c)
        ELSE Require(getSIMDVectorRegisterByteLength(c) = XMM_REGSIZE_BYTES, Frame(c),
                IF compExactlyDependsOn(c, "InstructionSet_AVX")
                THEN IF c.intrinsic = "NI_Vector256_AsVector"
                     THEN Redispatch(c, "NI_Vector256_GetLower", c.simdSize)
                     ELSE Redispatch(c, "NI_Vector128_ToVector256", 16)
                ELSE Ret(NullNode, Frame(c))))

case_NI_Vector512_AsVector(c) ==
    Require(c.numArgs = 1, Frame(c),
        IF getSIMDVectorRegisterByteLength(c) = YMM_REGSIZE_BYTES
        THEN Require(IsBaselineVector512IsaSupported(c), Frame(c),
                IF c.intrinsic = "NI_Vector512_AsVector"
                THEN Redispatch(c, "NI_Vector512_GetLower", c.simdSize)
                ELSE Redispatch(c, "NI_Vector256_ToVector512", 32))
        ELSE Require(getSIMDVectorRegisterByteLength(c) = XMM_REGSIZE_BYTES, Frame(c),
                IF compExactlyDependsOn(c, "InstructionSet_AVX512F")
                THEN IF c.intrinsic = "NI_Vector512_AsVector"
                     THEN Redispatch(c, "NI_Vector512_GetLower128", c.simdSize)
                     ELSE Redispatch(c, "NI_Vector128_ToVector512", 16)
                ELSE Ret(NullNode, Frame(c))))

case_NI_Vector128_Ceiling(c) ==
    Require(c.numArgs = 1 /\ varTypeIsFloating(c.simdBaseType), Frame(c),
        IF (c.simdSize # 32) /\ ~compExactlyDependsOn(c, "InstructionSet_SSE41")
        THEN Ret(NullNode, Frame(c))
        ELSE Unary("gtNewSimdCeilNode", "", c))

case_NI_Vector128_ConvertToInt32(c) ==
    Require(c.numArgs = 1 /\ c.simdBaseType = "TYP_FLOAT", Frame(c),
        Unary("gtNewSimdHWIntrinsicNode",
              IF c.simdSize = 32 THEN "NI_AVX_ConvertToVector256Int32WithTruncation"
                                 ELSE "NI_SSE2_ConvertToVector128Int32WithTruncation", c))

case_NI_Vector128_ConvertToSingle(c) ==
    Require(c.numArgs = 1, Frame(c),
        IF c.simdBaseType = "TYP_INT"
        THEN Unary("gtNewSimdHWIntrinsicNode",
                   IF c.simdSize = 32 THEN "NI_AVX_ConvertToVector256Single"
                                      ELSE "NI_SSE2_ConvertToVector128Single", c)
        ELSE Require(c.simdBaseType = "TYP_UINT", Frame(c), Ret(NullNode, Frame(c))))

\* static_cast<uintN_t>(IntegralValue()) into a lane of the base type; the
\* 32- and 64-bit lanes hold the non-negative values of the model unchanged
StaticCast(t, v) ==
    CASE genTypeSize(t) = 1 -> v % 256
      [] genTypeSize(t) = 2 -> v % 65536
      [] OTHER -> v

\* n pops in a row
PopN(f, n) ==
    [stack |-> SubSeq(f.stack, 1, Len(f.stack) - n),
     trace |-> f.trace \o [i \in 1 .. n |-> [ev |-> "pop", slot |-> Len(f.stack) - i + 1]]]


\* the constant-folding loop writing the value of iteration index to lane index
CreateFoldLoop_laneIsIndex(c, f) ==
    LET simdLength == getSIMDVectorLength(c.simdSize, c.simdBaseType)
    IN  [lanes |-> [l \in 1 .. simdLength |->
                      IF l - 1 < c.numArgs
                      THEN StaticCast(c.simdBaseType, impStackTop(f, l - 1).ival)
                      ELSE 0],
         f |-> PopN(f, c.numArgs)]

\* the constant-folding loop whose TYP_DOUBLE case writes the outer cnsVal
\* (still 0) instead of the value just popped
CreateFoldLoop_staleDouble(c, f) ==
    LET simdLength == getSIMDVectorLength(c.simdSize, c.simdBaseType)
        indexOfLane(lane) == simdLength - 1 - lane
    IN  [lanes |-> [l \in 1 .. simdLength |->
                      IF (indexOfLane(l - 1) < c.numArgs) /\ (c.simdBaseType # "TYP_DOUBLE")
                      THEN StaticCast(c.simdBaseType, impStackTop(f, indexOfLane(l - 1)).ival)
                      ELSE 0],
         f |-> PopN(f, c.numArgs)]

\* the constant-folding loop: "for (index = 0; index < numArgs; index++)
\*   vecCon->gtSimdVal.uN[simdLength - 1 - index] = cast(impPopStack().val)":
\* the pop of iteration index returns the entry index below the top
CreateFoldLoop(c, f) ==
    LET simdLength == getSIMDVectorLength(c.simdSize, c.simdBaseType)
        indexOfLane(lane) == simdLength - 1 - lane
    IN  [lanes |-> [l \in 1 .. simdLength |->
                      IF indexOfLane(l - 1) < c.numArgs
                      THEN StaticCast(c.simdBaseType, impStackTop(f, indexOfLane(l - 1)).ival)
                      ELSE 0],
         f |-> PopN(f, c.numArgs)]

\* the operand loop testing areArgumentsContiguous(prevArg, arg), the pair
\* handed over in pop order instead of source order
CreateOperandLoop_popOrder(c, f) ==
    LET argOf(i) == impStackTop(f, c.numArgs - 1 - i)
    IN  [operands |-> [k \in 1 .. c.numArgs |-> argOf(k - 1)],
         areArgsContiguous |-> (c.simdBaseType = "TYP_FLOAT")
             /\ \A i \in 0 .. c.numArgs - 2 : areArgumentsContiguous(argOf(i + 1), argOf(i)),
         f |-> PopN(f, c.numArgs)]

\* the operand loop: "for (i = numArgs - 1; i >= 0; i--) { arg = pop; ... AddOperand(i, arg) }":
\* iteration i pops the entry numArgs - 1 - i below the top and compares it
\* with the one popped before it while areArgsContiguous still holds
CreateOperandLoop(c, f) ==
    LET argOf(i) == impStackTop(f, c.numArgs - 1 - i)
    IN  [operands |-> [k \in 1 .. c.numArgs |-> argOf(k - 1)],
         areArgsContiguous |->
             (c.simdBaseType = "TYP_FLOAT")
                 /\ \A i \in 0 .. c.numArgs - 2 : areArgumentsContiguous(argOf(i), argOf(i + 1)),
         f |-> PopN(f, c.numArgs)]

\* isConstant: every argument is a constant of the base type's kind
CreateIsConstant(c) ==
    \A index \in 0 .. c.numArgs - 1 :
        IF varTypeIsFloating(c.simdBaseType)
        THEN IsCnsFltOrDbl(impStackTop(Frame(c), index))
        ELSE IsIntegralConst(impStackTop(Frame(c), index))

\* the TARGET_X86 decline shared by Create(1), CreateScalar and CreateScalarUnsafe
X86LongNonConst(c) ==
    c.x86 /\ varTypeIsLong(c.simdBaseType) /\ ~IsIntegralConst(impStackTop(Frame(c), 0))

\* "op1 = impPopStack().val; retNode = k(op1)"
ScalarUnary(k, c) ==
    LET p == impPopStack(Frame(c))
    IN  Ret(Simd(k, "", <<p.val>>, c), p.f)

\* gtNewSimdCreateBroadcastNode(type, op1, simdBaseJitType, simdSize): a constant
\* operand of the element kind is folded into a constant vector holding it in
\* every lane, any other operand gives the broadcast node
gtNewSimdCreateBroadcastNode(op1, c) ==
    IF (varTypeIsFloating(c.simdBaseType) /\ IsCnsFltOrDbl(op1))
          \/ (varTypeIsIntegral(c.simdBaseType) /\ IsIntegralConst(op1))
    THEN [Simd("gtNewVconNode", "", <<>>, c) EXCEPT
              !.cns = "vec",
              !.vval = [l \in 1 .. getSIMDVectorLength(c.simdSize, c.simdBaseType) |->
                           StaticCast(c.simdBaseType, op1.ival)]]
    ELSE Simd("gtNewSimdCreateBroadcastNode", "", <<op1>>, c)

\* Create with the TARGET_X86 long test placed ahead of the isConstant test
case_NI_Vector128_Create_x86LongFirst(c) ==
    IF c.numArgs = 1
    THEN IF X86LongNonConst(c)
         THEN Ret(NullNode, Frame(c))
         ELSE LET p == impPopStack(Frame(c))
              IN  Ret(gtNewSimdCreateBroadcastNode(p.val, c), p.f)
    ELSE Require(c.numArgs = getSIMDVectorLength(c.simdSize, c.simdBaseType), Frame(c),
        IF c.x86 /\ varTypeIsLong(c.simdBaseType)
        THEN Ret(NullNode, Frame(c))
        ELSE IF CreateIsConstant(c)
        THEN LET r == CreateFoldLoop(c, Frame(c))
             IN  Ret([Simd("gtNewVconNode", "", <<>>, c) EXCEPT !.cns = "vec", !.vval = r.lanes], r.f)
        ELSE LET r == CreateOperandLoop(c, Frame(c))
             IN  IF r.areArgsContiguous
                 THEN Ret(Simd("gtNewOperNode", "GT_IND",
                               <<Simd("CreateAddressNodeForSimdHWIntrinsicCreate", "", <<r.operands[1]>>, c)>>, c),
                          r.f)
                 ELSE Ret(Simd("gtNewSimdHWIntrinsicNode", c.intrinsic, r.operands, c), r.f))

case_NI_Vector128_Create(c) ==
    IF c.numArgs = 1
    THEN IF X86LongNonConst(c)
         THEN Ret(NullNode, Frame(c))
         ELSE LET p == impPopStack(Frame(c))
              IN  Ret(gtNewSimdCreateBroadcastNode(p.val, c), p.f)
    ELSE Require(c.numArgs = getSIMDVectorLength(c.simdSize, c.simdBaseType), Frame(c),
        IF CreateIsConstant(c)
        THEN LET r == CreateFoldLoop(c, Frame(c))
             IN  Ret([Simd("gtNewVconNode", "", <<>>, c) EXCEPT !.cns = "vec", !.vval = r.lanes], r.f)
        ELSE IF c.x86 /\ varTypeIsLong(c.simdBaseType)
        THEN Ret(NullNode, Frame(c))
        ELSE LET r == CreateOperandLoop(c, Frame(c))
             IN  IF r.areArgsContiguous
                 THEN Ret(Simd("gtNewOperNode", "GT_IND",
                               <<Simd("CreateAddressNodeForSimdHWIntrinsicCreate", "", <<r.operands[1]>>, c)>>, c),
                          r.f)
                 ELSE Ret(Simd("gtNewSimdHWIntrinsicNode", c.intrinsic, r.operands, c), r.f))

case_NI_Vector128_CreateScalar(c) ==
    Require(c.numArgs = 1, Frame(c),
        IF X86LongNonConst(c)
        THEN Ret(NullNode, Frame(c))
        ELSE ScalarUnary("gtNewSimdCreateScalarNode", c))

case_NI_Vector128_CreateScalarUnsafe(c) ==
    Require(c.numArgs = 1, Frame(c),
        IF X86LongNonConst(c)
        THEN Ret(NullNode, Frame(c))
        ELSE ScalarUnary("gtNewSimdCreateScalarUnsafeNode", c))

\* "op2 = getArgForHWIntrinsic(arg2); op1 = getArgForHWIntrinsic(arg1); retNode = BinOp(oper, op1, op2)"
BinaryFromArgs(oper, c) ==
    LET p2 == getArgForHWIntrinsic(Frame(c))
        p1 == getArgForHWIntrinsic(p2.f)
    IN  Ret(Simd("gtNewSimdBinOpNode", oper, <<p1.val, p2.val>>, c), p1.f)


\* the Divide case popping its operands before it tests the element kind
case_NI_Vector128_Divide_popsFirst(c) ==
    Require(c.numArgs = 2, Frame(c),
        LET p2 == getArgForHWIntrinsic(Frame(c))
            p1 == getArgForHWIntrinsic(p2.f)
        IN  IF ~varTypeIsFloating(c.simdBaseType)
            THEN Ret(NullNode, p1.f)
            ELSE Ret(Simd("gtNewSimdBinOpNode", "GT_DIV", <<p1.val, p2.val>>, c), p1.f))

\* the Divide case testing for an integral element kind of more than one byte
case_NI_Vector128_Divide_floatingOrByte(c) ==
    Require(c.numArgs = 2, Frame(c),
        IF varTypeIsIntegral(c.simdBaseType) /\ ~varTypeIsByte(c.simdBaseType)
        THEN Ret(NullNode, Frame(c))
        ELSE BinaryFromArgs("GT_DIV", c))

case_NI_Vector128_Divide(c) ==
    Require(c.numArgs = 2, Frame(c),
        IF ~varTypeIsFloating(c.simdBaseType)
        THEN Ret(NullNode, Frame(c))
        ELSE BinaryFromArgs("GT_DIV", c))

case_NI_Vector128_Dot(c) ==
    Require(c.numArgs = 2, Frame(c),
        IF varTypeIsByte(c.simdBaseType) \/ varTypeIsLong(c.simdBaseType)
        THEN Ret(NullNode, Frame(c))
        ELSE IF c.simdSize = 32 /\ ~varTypeIsFloating(c.simdBaseType)
                  /\ ~compExactlyDependsOn(c, "InstructionSet_AVX2")
        THEN Ret(NullNode, Frame(c))
        ELSE IF c.simdSize # 32 /\ c.simdBaseType \in {"TYP_INT", "TYP_UINT"}
                  /\ ~compExactlyDependsOn(c, "InstructionSet_SSE41")
        THEN Ret(NullNode, Frame(c))
        ELSE Binary("gtNewSimdDotProdNode", "", c))

case_NI_Vector512_ExtractMostSignificantBits(c) ==
    IF c.x86
    THEN Ret(NullNode, Frame(c))
    ELSE IF IsBaselineVector512IsaSupported(c)
    THEN Unary("gtNewSimdHWIntrinsicNode", "NI_AVX512F_MoveMaskSpecial", c)
    ELSE Ret(NullNode, Frame(c))

\* the TYP_SHORT / TYP_USHORT arm: shuffle the high bytes together, then move mask
ExtractMsbShort(c) ==
    LET byteType == IF varTypeIsUnsigned(c.simdBaseType) THEN "TYP_UBYTE" ELSE "TYP_BYTE"
        shuffleIntrinsic ==
            IF c.simdSize = 32 THEN "NI_AVX2_Shuffle"
            ELSE IF compOpportunisticallyDependsOn(c, "InstructionSet_SSSE3") THEN "NI_SSSE3_Shuffle"
            ELSE "NI_Illegal"
        p == impSIMDPopStack(Frame(c))
        mask == Node("gtNewVconNode", "ExtractMsbShuffleMask", <<>>, byteType, c.simdSize)
        shuffled == Node("gtNewSimdHWIntrinsicNode", shuffleIntrinsic, <<p.val, mask>>, byteType, c.simdSize)
        permuted == Node("gtNewSimdHWIntrinsicNode", "NI_AVX2_Permute4x64", <<shuffled, gtNewIconNode(216)>>,
                         IF c.simdBaseType = "TYP_UBYTE" THEN "TYP_ULONG" ELSE "TYP_LONG", c.simdSize)
        lower == Node("gtNewSimdGetLowerNode", "", <<permuted>>, byteType, c.simdSize)
    IN  IF shuffleIntrinsic = "NI_Illegal"
        THEN Ret(NullNode, Frame(c))
        ELSE IF c.simdSize = 32
        THEN Ret(Node("gtNewSimdHWIntrinsicNode", "NI_SSE2_MoveMask", <<lower>>, byteType, 16), p.f)
        ELSE Ret(Node("gtNewSimdHWIntrinsicNode", "NI_SSE2_MoveMask", <<shuffled>>, byteType, c.simdSize), p.f)

case_NI_Vector128_ExtractMostSignificantBits(c) ==
    Require(c.numArgs = 1, Frame(c),
        IF ~Avx2Gate(c)
        THEN Ret(NullNode, Frame(c))
        ELSE LET p == impSIMDPopStack(Frame(c))
             IN  CASE varTypeIsByte(c.simdBaseType) ->
                        Ret(Simd("gtNewSimdHWIntrinsicNode",
                                 IF c.simdSize = 32 THEN "NI_AVX2_MoveMask" ELSE "NI_SSE2_MoveMask",
                                 <<p.val>>, c), p.f)
                   [] c.simdBaseType \in {"TYP_SHORT", "TYP_USHORT"} -> ExtractMsbShort(c)
                   [] c.simdBaseType \in {"TYP_INT", "TYP_UINT", "TYP_FLOAT"} ->
                        Ret(Node("gtNewSimdHWIntrinsicNode",
                                 IF c.simdSize = 32 THEN "NI_AVX_MoveMask" ELSE "NI_SSE_MoveMask",
                                 <<p.val>>, "TYP_FLOAT", c.simdSize), p.f)
                   [] c.simdBaseType \in {"TYP_LONG", "TYP_ULONG", "TYP_DOUBLE"} ->
                        Ret(Node("gtNewSimdHWIntrinsicNode",
                                 IF c.simdSize = 32 THEN "NI_AVX_MoveMask" ELSE "NI_SSE2_MoveMask",
                                 <<p.val>>, "TYP_DOUBLE", c.simdSize), p.f)
                   [] OTHER -> ContractFailure(Frame(c)))

case_NI_Vector128_Floor(c) ==
    Require(c.numArgs = 1 /\ varTypeIsFloating(c.simdBaseType), Frame(c),
        IF (c.simdSize # 32) /\ ~compExactlyDependsOn(c, "InstructionSet_SSE41")
        THEN Ret(NullNode, Frame(c))
        ELSE Unary("gtNewSimdFloorNode", "", c))


\* the GetElement case with the index tests of the WithElement case
case_NI_Vector128_GetElement_checksIndex(c) ==
    Require(c.numArgs = 2, Frame(c),
        LET indexOp == impStackTop(Frame(c), 0)
        IN  CASE ~OperIsConst(indexOp) -> Ret(NullNode, Frame(c))
              [] OperIsConst(indexOp)
                   /\ ((indexOp.ival >= c.simdSize \div genTypeSize(c.simdBaseType)) \/ (indexOp.ival < 0)) ->
                    Ret(NullNode, Frame(c))
              [] c.simdBaseType \in {"TYP_BYTE", "TYP_UBYTE", "TYP_INT", "TYP_UINT", "TYP_LONG", "TYP_ULONG"}
                      /\ ~compExactlyDependsOn(c, "InstructionSet_SSE41") ->
                    Ret(NullNode, Frame(c))
              [] OTHER ->
                    LET p2 == impPopStack(Frame(c))
                        p1 == impSIMDPopStack(p2.f)
                    IN  Ret(Simd("gtNewSimdGetElementNode", "", <<p1.val, p2.val>>, c), p1.f))

case_NI_Vector128_GetElement(c) ==
    Require(c.numArgs = 2, Frame(c),
        CASE c.simdBaseType \in {"TYP_BYTE", "TYP_UBYTE", "TYP_INT", "TYP_UINT", "TYP_LONG", "TYP_ULONG"}
                  /\ ~compExactlyDependsOn(c, "InstructionSet_SSE41") ->
                Ret(NullNode, Frame(c))
          [] c.simdBaseType \notin ArithmeticTypes -> ContractFailure(Frame(c))
          [] OTHER ->
                LET p2 == impPopStack(Frame(c))
                    p1 == impSIMDPopStack(p2.f)
                IN  Ret(Simd("gtNewSimdGetElementNode", "", <<p1.val, p2.val>>, c), p1.f))

\* a GT_CAST of a TYP_BYREF is thrown away: the byref itself is the address
StripCastOfByref(op) == IF op.k = "cast_byref" THEN [op EXCEPT !.k = "arg"] ELSE op

\* address + index * sizeof(T)
ScaledAddress(addr, index, c) ==
    LET elemSize == gtNewIconNode(genTypeSize(c.simdBaseType))
        scaled == Node("gtNewOperNode", "GT_MUL", <<index, elemSize>>, "TYP_UNKNOWN", 0)
    IN  Node("gtNewOperNode", "GT_ADD", <<addr, scaled>>, "TYP_UNKNOWN", 0)

\* the Load case reading the index of its two-argument form off the stack without popping it
case_NI_SSE_LoadVector128_peeksIndex(c) ==
    IF c.numArgs = 2
    THEN LET op2 == impStackTop(Frame(c), 1)
             p1  == impPopStack(Frame(c))
         IN  Ret(Simd("gtNewSimdLoadNode", "", <<ScaledAddress(StripCastOfByref(op2), p1.val, c)>>, c), p1.f)
    ELSE Require(c.numArgs = 1, Frame(c),
             LET p1 == impPopStack(Frame(c))
             IN  Ret(Simd("gtNewSimdLoadNode", "", <<StripCastOfByref(p1.val)>>, c), p1.f))

case_NI_SSE_LoadVector128(c) ==
    IF c.numArgs = 2
    THEN LET p2 == impPopStack(Frame(c))
             p1 == impPopStack(p2.f)
         IN  Ret(Simd("gtNewSimdLoadNode", "", <<ScaledAddress(StripCastOfByref(p1.val), p2.val, c)>>, c), p1.f)
    ELSE Require(c.numArgs = 1, Frame(c),
             LET p1 == impPopStack(Frame(c))
             IN  Ret(Simd("gtNewSimdLoadNode", "", <<StripCastOfByref(p1.val)>>, c), p1.f))

\* the Multiply case with the AVX512DQ_VL test inverted
case_NI_Vector128_Multiply_longWithoutDQ(c) ==
    Require(c.numArgs = 2, Frame(c),
        IF (c.simdSize = 32) /\ ~varTypeIsFloating(c.simdBaseType)
              /\ ~compExactlyDependsOn(c, "InstructionSet_AVX2")
        THEN Ret(NullNode, Frame(c))
        ELSE IF c.simdBaseType \in {"TYP_BYTE", "TYP_UBYTE"}
        THEN Ret(NullNode, Frame(c))
        ELSE IF varTypeIsLong(c.simdBaseType)
        THEN Require(c.simdSize \in {16, 32}, Frame(c),
                 IF compOpportunisticallyDependsOn(c, "InstructionSet_AVX512DQ_VL")
                 THEN Ret(NullNode, Frame(c))
                 ELSE IF c.x86
                 THEN Ret(NullNode, Frame(c))
                 ELSE BinaryFromArgs("GT_MUL", c))
        ELSE BinaryFromArgs("GT_MUL", c))

case_NI_Vector128_Multiply(c) ==
    Require(c.numArgs = 2, Frame(c),
        IF (c.simdSize = 32) /\ ~varTypeIsFloating(c.simdBaseType)
              /\ ~compExactlyDependsOn(c, "InstructionSet_AVX2")
        THEN Ret(NullNode, Frame(c))
        ELSE IF c.simdBaseType \in {"TYP_BYTE", "TYP_UBYTE"}
        THEN Ret(NullNode, Frame(c))
        ELSE IF varTypeIsLong(c.simdBaseType)
        THEN Require(c.simdSize \in {16, 32}, Frame(c),
                 IF ~compOpportunisticallyDependsOn(c, "InstructionSet_AVX512DQ_VL")
                 THEN Ret(NullNode, Frame(c))
                 ELSE IF c.x86
                 THEN Ret(NullNode, Frame(c))
                 ELSE BinaryFromArgs("GT_MUL", c))
        ELSE BinaryFromArgs("GT_MUL", c))

case_NI_Vector128_Narrow(c) ==
    Require(c.numArgs = 2, Frame(c),
        IF Avx2Gate(c)
        THEN Require((c.simdSize # 64) \/ IsBaselineVector512IsaSupportedDebugOnly(c), Frame(c),
                 Binary("gtNewSimdNarrowNode", "", c))
        ELSE Ret(NullNode, Frame(c)))

case_NI_Vector512_op_Inequality(c) ==
    Require(c.numArgs = 2, Frame(c),
        IF IsBaselineVector512IsaSupported(c)
        THEN Binary("gtNewSimdCmpOpAnyNode", "GT_NE", c)
        ELSE Ret(NullNode, Frame(c)))

\* "op2 = impPopStack().val; op1 = impSIMDPopStack(retType); retNode = BinOp(oper, op1, op2)"
ShiftBy(oper, c) ==
    LET p2 == impPopStack(Frame(c))
        p1 == impSIMDPopStack(p2.f)
    IN  Ret(Simd("gtNewSimdBinOpNode", oper, <<p1.val, p2.val>>, c), p1.f)

case_NI_Vector128_ShiftLeft(c) ==
    Require(c.numArgs = 2, Frame(c),
        IF varTypeIsByte(c.simdBaseType)
        THEN Ret(NullNode, Frame(c))
        ELSE IF Avx2GateAnyType(c)
        THEN ShiftBy("GT_LSH", c)
        ELSE Ret(NullNode, Frame(c)))

case_NI_Vector128_ShiftRightArithmetic(c) ==
    Require(c.numArgs = 2, Frame(c),
        IF varTypeIsByte(c.simdBaseType)
        THEN Ret(NullNode, Frame(c))
        ELSE IF (varTypeIsLong(c.simdBaseType) \/ c.simdBaseType = "TYP_DOUBLE")
                  /\ ~compOpportunisticallyDependsOn(c, "InstructionSet_AVX512F_VL")
        THEN Ret(NullNode, Frame(c))
        ELSE IF Avx2GateAnyType(c)
        THEN ShiftBy(IF varTypeIsUnsigned(c.simdBaseType) THEN "GT_RSZ" ELSE "GT_RSH", c)
        ELSE Ret(NullNode, Frame(c)))

case_NI_Vector128_ShiftRightLogical(c) ==
    Require(c.numArgs = 2, Frame(c),
        IF varTypeIsByte(c.simdBaseType)
        THEN Ret(NullNode, Frame(c))
        ELSE IF Avx2GateAnyType(c)
        THEN ShiftBy("GT_RSZ", c)
        ELSE Ret(NullNode, Frame(c)))

GetIntegralVectorConstElement(indices, index) == indices.vval[index + 1]


\* the crossLane loop testing the destinations of the lower half only
ShuffleCrossLane_lowerHalfOnly(indices, index, elementCount) ==
    \E i \in index .. (elementCount \div 2) - 1 :
        /\ GetIntegralVectorConstElement(indices, i) < elementCount
        /\ GetIntegralVectorConstElement(indices, i) >= (elementCount \div 2)

\* the crossLane loop of the 32-byte small-integer shuffle, from index on
RECURSIVE ShuffleCrossLane(_, _, _)
ShuffleCrossLane(indices, index, elementCount) ==
    IF index < elementCount
    THEN LET value == GetIntegralVectorConstElement(indices, index)
         IN  IF value >= elementCount
             THEN ShuffleCrossLane(indices, index + 1, elementCount)
             ELSE IF index < (elementCount \div 2)
             THEN IF value >= (elementCount \div 2)
                  THEN TRUE
                  ELSE ShuffleCrossLane(indices, index + 1, elementCount)
             ELSE IF value < (elementCount \div 2)
             THEN TRUE
             ELSE ShuffleCrossLane(indices, index + 1, elementCount)
    ELSE FALSE

\* the Shuffle case building a node for the three-argument form too
case_NI_Vector128_Shuffle_threeArgForm(c) ==
    Require(c.numArgs \in {2, 3} /\ c.simdSize \in {16, 32}, Frame(c),
        LET indices == impStackTop(Frame(c), 0)
            elementCount == c.simdSize \div genTypeSize(c.simdBaseType)
        IN  IF ~IsVectorConst(indices)
            THEN Ret(NullNode, Frame(c))
            ELSE IF c.simdSize = 32 /\ ~compExactlyDependsOn(c, "InstructionSet_AVX2")
            THEN Ret(NullNode, Frame(c))
            ELSE IF c.simdSize = 32 /\ varTypeIsSmallInt(c.simdBaseType)
                      /\ ShuffleCrossLane(indices, 0, elementCount)
            THEN Ret(NullNode, Frame(c))
            ELSE IF c.simdSize # 32 /\ varTypeIsSmallInt(c.simdBaseType)
                      /\ ~compExactlyDependsOn(c, "InstructionSet_SSSE3")
            THEN Ret(NullNode, Frame(c))
            ELSE IF c.numArgs = 2
            THEN Binary("gtNewSimdShuffleNode", "", c)
            ELSE LET p == Pop3(Frame(c))
                 IN  Ret(Simd("gtNewSimdShuffleNode", "", <<p.op1, p.op2, p.op3>>, c), p.f))

case_NI_Vector128_Shuffle(c) ==
    Require(c.numArgs \in {2, 3} /\ c.simdSize \in {16, 32}, Frame(c),
        LET indices == impStackTop(Frame(c), 0)
            elementCount == c.simdSize \div genTypeSize(c.simdBaseType)
        IN  IF ~IsVectorConst(indices)
            THEN Ret(NullNode, Frame(c))
            ELSE IF c.simdSize = 32 /\ ~compExactlyDependsOn(c, "InstructionSet_AVX2")
            THEN Ret(NullNode, Frame(c))
            ELSE IF c.simdSize = 32 /\ varTypeIsSmallInt(c.simdBaseType)
                      /\ ShuffleCrossLane(indices, 0, elementCount)
            THEN Ret(NullNode, Frame(c))
            ELSE IF c.simdSize # 32 /\ varTypeIsSmallInt(c.simdBaseType)
                      /\ ~compExactlyDependsOn(c, "InstructionSet_SSSE3")
            THEN Ret(NullNode, Frame(c))
            ELSE IF c.numArgs = 2
            THEN Binary("gtNewSimdShuffleNode", "", c)
            ELSE Ret(NullNode, Frame(c)))

case_NI_Vector128_Sqrt(c) ==
    Require(c.numArgs = 1, Frame(c),
        IF varTypeIsFloating(c.simdBaseType)
        THEN Unary("gtNewSimdSqrtNode", "", c)
        ELSE Ret(NullNode, Frame(c)))

case_NI_SSE_Store(c) ==
    Require(c.numArgs = 2, Frame(c),
        LET p2 == impSIMDPopStack(Frame(c))
            p1 == impPopStack(p2.f)
        IN  Ret(Simd("gtNewSimdStoreNode", "", <<StripCastOfByref(p1.val), p2.val>>, c), p1.f))

case_NI_Vector128_Store(c) ==
    IF c.numArgs = 3
    THEN LET f  == impSpillSideEffect(Frame(c), esStackDepth(Frame(c)) - 3)
             p3 == impPopStack(f)
             p2 == impPopStack(p3.f)
             p1 == impSIMDPopStack(p2.f)
         IN  Ret(Simd("gtNewSimdStoreNode", "",
                      <<ScaledAddress(StripCastOfByref(p2.val), p3.val, c), p1.val>>, c), p1.f)
    ELSE Require(c.numArgs = 2, Frame(c),
             LET f  == impSpillSideEffect(Frame(c), esStackDepth(Frame(c)) - 2)
                 p2 == impPopStack(f)
                 p1 == impSIMDPopStack(p2.f)
             IN  Ret(Simd("gtNewSimdStoreNode", "", <<StripCastOfByref(p2.val), p1.val>>, c), p1.f))

\* "spill(depth - 2); op2 = pop; op1 = pop; retNode = k(op2, op1)"
StoreSwapped(k, c) ==
    LET f  == impSpillSideEffect(Frame(c), esStackDepth(Frame(c)) - 2)
        p2 == impPopStack(f)
        p1 == impSIMDPopStack(p2.f)
    IN  Ret(Simd(k, "", <<StripCastOfByref(p2.val), p1.val>>, c), p1.f)

case_NI_Vector128_Sum(c) ==
    Require(c.numArgs = 1, Frame(c),
        IF (c.simdSize = 32) /\ ~compOpportunisticallyDependsOn(c, "InstructionSet_AVX2")
        THEN Ret(NullNode, Frame(c))
        ELSE IF varTypeIsFloating(c.simdBaseType)
        THEN IF ~compOpportunisticallyDependsOn(c, "InstructionSet_SSE3")
             THEN Ret(NullNode, Frame(c))
             ELSE Unary("gtNewSimdSumNode", "", c)
        ELSE IF ~compOpportunisticallyDependsOn(c, "InstructionSet_SSSE3")
        THEN Ret(NullNode, Frame(c))
        ELSE IF varTypeIsByte(c.simdBaseType) \/ varTypeIsLong(c.simdBaseType)
        THEN Ret(NullNode, Frame(c))
        ELSE Unary("gtNewSimdSumNode", "", c))

case_NI_Vector128_ToScalar(c) ==
    Require(c.numArgs = 1, Frame(c),
        IF c.x86 /\ varTypeIsLong(c.simdBaseType)
        THEN Ret(NullNode, Frame(c))
        ELSE Unary("gtNewSimdHWIntrinsicNode", c.intrinsic, c))

case_NI_Vector128_WidenLower(c) ==
    Require(c.numArgs = 1, Frame(c),
        IF Avx2Gate(c)
        THEN Require((c.simdSize # 64) \/ IsBaselineVector512IsaSupportedDebugOnly(c), Frame(c),
                 Unary("gtNewSimdWidenLowerNode", "", c))
        ELSE Ret(NullNode, Frame(c)))

case_NI_Vector128_WidenUpper(c) ==
    Require(c.numArgs = 1, Frame(c),
        IF Avx2Gate(c)
        THEN Require((c.simdSize # 64) \/ IsBaselineVector512IsaSupportedDebugOnly(c), Frame(c),
                 Unary("gtNewSimdWidenUpperNode", "", c))
        ELSE Ret(NullNode, Frame(c)))


\* the WithElement case with the upper end of the index range off by one
case_NI_Vector128_WithElement_offByOne(c) ==
    Require(c.numArgs = 3, Frame(c),
        LET indexOp == impStackTop(Frame(c), 1)
            imm8    == indexOp.ival
            count   == c.simdSize \div genTypeSize(c.simdBaseType)
        IN  IF ~OperIsConst(indexOp)
            THEN Ret(NullNode, Frame(c))
            ELSE IF (imm8 > count) \/ (imm8 < 0)
            THEN Ret(NullNode, Frame(c))
            ELSE CASE c.simdBaseType \in {"TYP_BYTE", "TYP_UBYTE", "TYP_INT", "TYP_UINT"}
                          /\ ~compExactlyDependsOn(c, "InstructionSet_SSE41") ->
                        Ret(NullNode, Frame(c))
                   [] c.simdBaseType \in {"TYP_LONG", "TYP_ULONG"}
                          /\ ~compExactlyDependsOn(c, "InstructionSet_SSE41_X64") ->
                        Ret(NullNode, Frame(c))
                   [] OTHER ->
                        LET pv == impPopStack(Frame(c))
                            pi == impPopStack(pv.f)
                            pw == impSIMDPopStack(pi.f)
                        IN  Ret(Simd("gtNewSimdWithElementNode", "", <<pw.val, indexOp, pv.val>>, c), pw.f))

case_NI_Vector128_WithElement(c) ==
    Require(c.numArgs = 3, Frame(c),
        LET indexOp == impStackTop(Frame(c), 1)
            imm8    == indexOp.ival
            count   == c.simdSize \div genTypeSize(c.simdBaseType)
        IN  IF ~OperIsConst(indexOp)
            THEN Ret(NullNode, Frame(c))
            ELSE IF (imm8 >= count) \/ (imm8 < 0)
            THEN Ret(NullNode, Frame(c))
            ELSE CASE c.simdBaseType \in {"TYP_BYTE", "TYP_UBYTE", "TYP_INT", "TYP_UINT"}
                          /\ ~compExactlyDependsOn(c, "InstructionSet_SSE41") ->
                        Ret(NullNode, Frame(c))
                   [] c.simdBaseType \in {"TYP_LONG", "TYP_ULONG"}
                          /\ ~compExactlyDependsOn(c, "InstructionSet_SSE41_X64") ->
                        Ret(NullNode, Frame(c))
                   [] c.simdBaseType \notin ArithmeticTypes -> ContractFailure(Frame(c))
                   [] OTHER ->
                        LET pv == impPopStack(Frame(c))
                            pi == impPopStack(pv.f)
                            pw == impSIMDPopStack(pi.f)
                        IN  Ret(Simd("gtNewSimdWithElementNode", "", <<pw.val, indexOp, pv.val>>, c), pw.f))

case_NI_X86Base_DivRem(c) ==
    Require(c.numArgs = 3, Frame(c),
        LET p == Pop3(Frame(c))
            divRemIntrinsic == Node("gtNewScalarHWIntrinsicNode", c.intrinsic, <<p.op1, p.op2, p.op3>>,
                                    c.simdBaseType, 0)
        IN  Ret(Node("impAssignMultiRegTypeToVar", "", <<divRemIntrinsic>>, c.simdBaseType, 0), p.f))

\* SSE / SSE2 CompareScalarGreaterThan family; moveScalar is NI_SSE_MoveScalar or NI_SSE2_MoveScalar
CompareScalarGreater(c, moveScalar) ==
    LET supportsAvx == compOpportunisticallyDependsOn(c, "InstructionSet_AVX")
        f == IF ~supportsAvx
             THEN impSpillSideEffect(Frame(c), esStackDepth(Frame(c)) - 2)
             ELSE Frame(c)
        p == Pop2(f)
        comparison == [gtNewIconNode(0) EXCEPT !.oper = c.intrinsic]
        clonedOp1 == p.op1
        swapped == Simd("gtNewSimdHWIntrinsicNode", c.intrinsic, <<p.op2, p.op1>>, c)
    IN  IF supportsAvx
        THEN Ret(Simd("gtNewSimdHWIntrinsicNode", "NI_AVX_CompareScalar", <<p.op1, p.op2, comparison>>, c), p.f)
        ELSE Ret(Simd("gtNewSimdHWIntrinsicNode", moveScalar, <<clonedOp1, swapped>>, c), p.f)

case_NI_SSE2_StoreNonTemporal(c) ==
    Require(c.numArgs = 2, Frame(c),
        LET p2 == impPopStack(Frame(c))
            p1 == impPopStack(p2.f)
        IN  Ret(Node("gtNewSimdHWIntrinsicNode", "NI_SSE2_StoreNonTemporal", <<p1.val, p2.val>>,
                     c.simdBaseType, 0), p1.f))

case_NI_AVX2_PermuteVar8x32(c) ==
    LET f == impSpillSideEffect(Frame(c), esStackDepth(Frame(c)) - 2)
        indexVector  == impSIMDPopStack(f)
        sourceVector == impSIMDPopStack(indexVector.f)
    IN  Ret(Node("gtNewSimdHWIntrinsicNode", "NI_AVX2_PermuteVar8x32",
                 <<indexVector.val, sourceVector.val>>, c.simdBaseType, 32), sourceVector.f)

case_NI_AVX2_GatherMaskVector128(c) ==
    Require(c.numArgs = 5, Frame(c),
        LET p5 == getArgForHWIntrinsic(Frame(c))
            p4 == getArgForHWIntrinsic(p5.f)
            p3 == getArgForHWIntrinsic(p4.f)
            p2 == getArgForHWIntrinsic(p3.f)
            p1 == getArgForHWIntrinsic(p2.f)
        IN  Ret(Simd("GenTreeHWIntrinsic", c.intrinsic, <<p1.val, p2.val, p3.val, p4.val, p5.val>>, c), p1.f))

\* "op2 = pop; op1 = pop; return gtNewScalarHWIntrinsicNode(retType, op2, op1, intrinsic)"
ScalarSwapped(c) ==
    LET p2 == impPopStack(Frame(c))
        p1 == impPopStack(p2.f)
    IN  Ret(Node("gtNewScalarHWIntrinsicNode", c.intrinsic, <<p2.val, p1.val>>, c.simdBaseType, 0), p1.f)

case_NI_BMI2_ZeroHighBits(c) == Require(c.numArgs = 2, Frame(c), ScalarSwapped(c))

case_NI_BMI1_BitFieldExtract(c) ==
    IF c.numArgs = 3
    THEN Ret(NullNode, Frame(c))
    ELSE Require(c.numArgs = 2, Frame(c), ScalarSwapped(c))

\* lines 605-609 and the switch at line 611; the short cases are spelled out in
\* their arm, the others have a definition of their own
impSpecialIntrinsic(c) ==
    IF (c.simdSize # 0) /\ (c.simdBaseType \notin ArithmeticTypes)
    THEN ContractFailure(Frame(c))
    ELSE CASE
           c.intrinsic \in CaseLabels("NI_Vector128_Abs") -> case_NI_Vector128_Abs(c)
        [] c.intrinsic \in CaseLabels("NI_Vector128_Add") -> case_NI_Vector128_Add(c)
        [] c.intrinsic \in CaseLabels("NI_Vector128_AndNot") -> case_NI_Vector128_AndNot(c)
        \* lines 662-713
        [] c.intrinsic \in CaseLabels("NI_Vector128_As") ->
                (Require(c.numArgs = 1, Frame(c), FoldCast(c)))
        [] c.intrinsic \in CaseLabels("NI_Vector128_AsVector") -> case_NI_Vector128_AsVector(c)
        \* lines 739-749
        [] c.intrinsic \in CaseLabels("NI_Vector128_AsVector2") ->
                (Require(c.numArgs = 1 /\ c.simdSize = 16 /\ c.simdBaseType = "TYP_FLOAT", Frame(c),
                Unary("gtNewSimdHWIntrinsicNode", c.intrinsic, c)))
        [] c.intrinsic \in CaseLabels("NI_Vector128_AsVector128") -> case_NI_Vector128_AsVector128(c)
        [] c.intrinsic \in CaseLabels("NI_Vector256_AsVector") -> case_NI_Vector256_AsVector(c)
        [] c.intrinsic \in CaseLabels("NI_Vector512_AsVector") -> case_NI_Vector512_AsVector(c)
        \* lines 929-943
        [] c.intrinsic \in CaseLabels("NI_Vector128_BitwiseAnd") ->
                (Require(c.numArgs = 2, Frame(c), Binary("gtNewSimdBinOpNode", "GT_AND", c)))
        \* lines 945-959
        [] c.intrinsic \in CaseLabels("NI_Vector128_BitwiseOr") ->
                (Require(c.numArgs = 2, Frame(c), Binary("gtNewSimdBinOpNode", "GT_OR", c)))
        [] c.intrinsic \in CaseLabels("NI_Vector128_Ceiling") -> case_NI_Vector128_Ceiling(c)
        \* lines 978-989
        [] c.intrinsic \in CaseLabels("NI_Vector128_ConditionalSelect") ->
                (Require(c.numArgs = 3, Frame(c),
                LET p == Pop3(Frame(c))
                IN  Ret(Simd("gtNewSimdCndSelNode", "", <<p.op1, p.op2, p.op3>>, c), p.f)))
        \* lines 991-1003
        [] c.intrinsic \in CaseLabels("NI_Vector128_ConvertToDouble") ->
                (Require(c.numArgs = 1, Frame(c), Ret(NullNode, Frame(c))))
        [] c.intrinsic \in CaseLabels("NI_Vector128_ConvertToInt32") -> case_NI_Vector128_ConvertToInt32(c)
        [] c.intrinsic \in CaseLabels("NI_Vector128_ConvertToSingle") -> case_NI_Vector128_ConvertToSingle(c)
        [] c.intrinsic \in CaseLabels("NI_Vector128_Create") -> case_NI_Vector128_Create(c)
        [] c.intrinsic \in CaseLabels("NI_Vector128_CreateScalar") -> case_NI_Vector128_CreateScalar(c)
        [] c.intrinsic \in CaseLabels("NI_Vector128_CreateScalarUnsafe") -> case_NI_Vector128_CreateScalarUnsafe(c)
        [] c.intrinsic \in CaseLabels("NI_Vector128_Divide") -> case_NI_Vector128_Divide(c)
        [] c.intrinsic \in CaseLabels("NI_Vector128_Dot") -> case_NI_Vector128_Dot(c)
        \* lines 1346-1360
        [] c.intrinsic \in CaseLabels("NI_Vector128_Equals") ->
                (Require(c.numArgs = 2, Frame(c),
                IF Avx2Gate(c) THEN Binary("gtNewSimdCmpOpNode", "GT_EQ", c) ELSE Ret(NullNode, Frame(c))))
        \* lines 1362-1375
        [] c.intrinsic \in CaseLabels("NI_Vector512_EqualsAll") ->
                (Require(c.numArgs = 2 /\ IsBaselineVector512IsaSupportedDebugOnly(c), Frame(c),
                Binary("gtNewSimdCmpOpAllNode", "GT_EQ", c)))
        \* lines 1377-1394
        [] c.intrinsic \in CaseLabels("NI_Vector128_EqualsAll") ->
                (Require(c.numArgs = 2, Frame(c),
                IF Avx2Gate(c) THEN Binary("gtNewSimdCmpOpAllNode", "GT_EQ", c) ELSE Ret(NullNode, Frame(c))))
        \* lines 1396-1409
        [] c.intrinsic \in CaseLabels("NI_Vector512_EqualsAny") ->
                (Require(c.numArgs = 2 /\ c.simdSize = 64 /\ IsBaselineVector512IsaSupportedDebugOnly(c), Frame(c),
                Binary("gtNewSimdCmpOpAnyNode", "GT_EQ", c)))
        \* lines 1411-1426
        [] c.intrinsic \in CaseLabels("NI_Vector128_EqualsAny") ->
                (Require(c.numArgs = 2, Frame(c),
                IF Avx2GateAnyType(c) THEN Binary("gtNewSimdCmpOpAnyNode", "GT_EQ", c) ELSE Ret(NullNode, Frame(c))))
        [] c.intrinsic \in CaseLabels("NI_Vector512_ExtractMostSignificantBits") -> case_NI_Vector512_ExtractMostSignificantBits(c)
        [] c.intrinsic \in CaseLabels("NI_Vector128_ExtractMostSignificantBits") -> case_NI_Vector128_ExtractMostSignificantBits(c)
        [] c.intrinsic \in CaseLabels("NI_Vector128_Floor") -> case_NI_Vector128_Floor(c)
        \* lines 1583-1590
        [] c.intrinsic \in CaseLabels("NI_Vector128_get_AllBitsSet") ->
                (Require(c.numArgs = 0, Frame(c), Ret(Simd("gtNewAllBitsSetConNode", "", <<>>, c), Frame(c))))
        \* lines 1592-1599
        [] c.intrinsic \in CaseLabels("NI_Vector128_get_One") ->
                (Require(c.numArgs = 0, Frame(c), Ret(Simd("gtNewOneConNode", "", <<>>, c), Frame(c))))
        \* lines 1601-1608
        [] c.intrinsic \in CaseLabels("NI_Vector128_get_Zero") ->
                (Require(c.numArgs = 0, Frame(c), Ret(Simd("gtNewZeroConNode", "", <<>>, c), Frame(c))))
        [] c.intrinsic \in CaseLabels("NI_Vector128_GetElement") -> case_NI_Vector128_GetElement(c)
        \* lines 1649-1662
        [] c.intrinsic \in CaseLabels("NI_Vector128_GreaterThan") ->
                (Require(c.numArgs = 2, Frame(c),
                IF Avx2Gate(c) THEN Binary("gtNewSimdCmpOpNode", "GT_GT", c) ELSE Ret(NullNode, Frame(c))))
        \* lines 1664-1679
        [] c.intrinsic \in CaseLabels("NI_Vector128_GreaterThanAll") ->
                (Require(c.numArgs = 2, Frame(c),
                IF Avx2GateAnyType(c) THEN Binary("gtNewSimdCmpOpAllNode", "GT_GT", c) ELSE Ret(NullNode, Frame(c))))
        \* lines 1681-1696
        [] c.intrinsic \in CaseLabels("NI_Vector128_GreaterThanAny") ->
                (Require(c.numArgs = 2, Frame(c),
                IF Avx2GateAnyType(c) THEN Binary("gtNewSimdCmpOpAnyNode", "GT_GT", c) ELSE Ret(NullNode, Frame(c))))
        \* lines 1698-1711
        [] c.intrinsic \in CaseLabels("NI_Vector128_GreaterThanOrEqual") ->
                (Require(c.numArgs = 2, Frame(c),
                IF Avx2Gate(c) THEN Binary("gtNewSimdCmpOpNode", "GT_GE", c) ELSE Ret(NullNode, Frame(c))))
        \* lines 1713-1728
        [] c.intrinsic \in CaseLabels("NI_Vector128_GreaterThanOrEqualAll") ->
                (Require(c.numArgs = 2, Frame(c),
                IF Avx2GateAnyType(c) THEN Binary("gtNewSimdCmpOpAllNode", "GT_GE", c) ELSE Ret(NullNode, Frame(c))))
        \* lines 1730-1745
        [] c.intrinsic \in CaseLabels("NI_Vector128_GreaterThanOrEqualAny") ->
                (Require(c.numArgs = 2, Frame(c),
                IF Avx2GateAnyType(c) THEN Binary("gtNewSimdCmpOpAnyNode", "GT_GE", c) ELSE Ret(NullNode, Frame(c))))
        \* lines 1747-1760
        [] c.intrinsic \in CaseLabels("NI_Vector128_LessThan") ->
                (Require(c.numArgs = 2, Frame(c),
                IF Avx2Gate(c) THEN Binary("gtNewSimdCmpOpNode", "GT_LT", c) ELSE Ret(NullNode, Frame(c))))
        \* lines 1762-1777
        [] c.intrinsic \in CaseLabels("NI_Vector128_LessThanAll") ->
                (Require(c.numArgs = 2, Frame(c),
                IF Avx2GateAnyType(c) THEN Binary("gtNewSimdCmpOpAllNode", "GT_LT", c) ELSE Ret(NullNode, Frame(c))))
        \* lines 1779-1794
        [] c.intrinsic \in CaseLabels("NI_Vector128_LessThanAny") ->
                (Require(c.numArgs = 2, Frame(c),
                IF Avx2GateAnyType(c) THEN Binary("gtNewSimdCmpOpAnyNode", "GT_LT", c) ELSE Ret(NullNode, Frame(c))))
        \* lines 1796-1809
        [] c.intrinsic \in CaseLabels("NI_Vector128_LessThanOrEqual") ->
                (Require(c.numArgs = 2, Frame(c),
                IF Avx2Gate(c) THEN Binary("gtNewSimdCmpOpNode", "GT_LE", c) ELSE Ret(NullNode, Frame(c))))
        \* lines 1811-1826
        [] c.intrinsic \in CaseLabels("NI_Vector128_LessThanOrEqualAll") ->
                (Require(c.numArgs = 2, Frame(c),
                IF Avx2GateAnyType(c) THEN Binary("gtNewSimdCmpOpAllNode", "GT_LE", c) ELSE Ret(NullNode, Frame(c))))
        \* lines 1828-1843
        [] c.intrinsic \in CaseLabels("NI_Vector128_LessThanOrEqualAny") ->
                (Require(c.numArgs = 2, Frame(c),
                IF Avx2GateAnyType(c) THEN Binary("gtNewSimdCmpOpAnyNode", "GT_LE", c) ELSE Ret(NullNode, Frame(c))))
        [] c.intrinsic \in CaseLabels("NI_SSE_LoadVector128") -> case_NI_SSE_LoadVector128(c)
        \* lines 1885-1901
        [] c.intrinsic \in CaseLabels("NI_Vector128_LoadAligned") ->
                (Require(c.numArgs = 1, Frame(c),
                LET p1 == impPopStack(Frame(c))
                IN  Ret(Simd("gtNewSimdLoadAlignedNode", "", <<StripCastOfByref(p1.val)>>, c), p1.f)))
        \* lines 1903-1919
        [] c.intrinsic \in CaseLabels("NI_Vector128_LoadAlignedNonTemporal") ->
                (Require(c.numArgs = 1, Frame(c),
                LET p1 == impPopStack(Frame(c))
                IN  Ret(Simd("gtNewSimdLoadNonTemporalNode", "", <<StripCastOfByref(p1.val)>>, c), p1.f)))
        \* lines 1921-1934
        [] c.intrinsic \in CaseLabels("NI_Vector128_Max") ->
                (Require(c.numArgs = 2, Frame(c),
                IF Avx2Gate(c) THEN Binary("gtNewSimdMaxNode", "", c) ELSE Ret(NullNode, Frame(c))))
        \* lines 1936-1949
        [] c.intrinsic \in CaseLabels("NI_Vector128_Min") ->
                (Require(c.numArgs = 2, Frame(c),
                IF Avx2Gate(c) THEN Binary("gtNewSimdMinNode", "", c) ELSE Ret(NullNode, Frame(c))))
        [] c.intrinsic \in CaseLabels("NI_Vector128_Multiply") -> case_NI_Vector128_Multiply(c)
        [] c.intrinsic \in CaseLabels("NI_Vector128_Narrow") -> case_NI_Vector128_Narrow(c)
        \* lines 2019-2032
        [] c.intrinsic \in CaseLabels("NI_Vector128_Negate") ->
                (Require(c.numArgs = 1, Frame(c),
                IF Avx2Gate(c) THEN Unary("gtNewSimdUnOpNode", "GT_NEG", c) ELSE Ret(NullNode, Frame(c))))
        \* lines 2034-2045
        [] c.intrinsic \in CaseLabels("NI_Vector128_OnesComplement") ->
                (Require(c.numArgs = 1, Frame(c), Unary("gtNewSimdUnOpNode", "GT_NOT", c)))
        \* lines 2047-2062
        [] c.intrinsic \in CaseLabels("NI_Vector128_op_Inequality") ->
                (Require(c.numArgs = 2, Frame(c),
                IF Avx2Gate(c) THEN Binary("gtNewSimdCmpOpAnyNode", "GT_NE", c) ELSE Ret(NullNode, Frame(c))))
        [] c.intrinsic \in CaseLabels("NI_Vector512_op_Inequality") -> case_NI_Vector512_op_Inequality(c)
        \* lines 2081-2087
        [] c.intrinsic \in CaseLabels("NI_Vector128_op_UnaryPlus") ->
                (Require(c.numArgs = 1, Frame(c), FoldCast(c)))
        \* lines 2089-2106
        [] c.intrinsic \in CaseLabels("NI_Vector128_Subtract") ->
                (Require(c.numArgs = 2, Frame(c),
                IF Avx2Gate(c) THEN Binary("gtNewSimdBinOpNode", "GT_SUB", c) ELSE Ret(NullNode, Frame(c))))
        [] c.intrinsic \in CaseLabels("NI_Vector128_ShiftLeft") -> case_NI_Vector128_ShiftLeft(c)
        [] c.intrinsic \in CaseLabels("NI_Vector128_ShiftRightArithmetic") -> case_NI_Vector128_ShiftRightArithmetic(c)
        [] c.intrinsic \in CaseLabels("NI_Vector128_ShiftRightLogical") -> case_NI_Vector128_ShiftRightLogical(c)
        [] c.intrinsic \in CaseLabels("NI_Vector128_Shuffle") -> case_NI_Vector128_Shuffle(c)
        [] c.intrinsic \in CaseLabels("NI_Vector128_Sqrt") -> case_NI_Vector128_Sqrt(c)
        [] c.intrinsic \in CaseLabels("NI_SSE_Store") -> case_NI_SSE_Store(c)
        [] c.intrinsic \in CaseLabels("NI_Vector128_Store") -> case_NI_Vector128_Store(c)
        \* lines 2352-2376
        [] c.intrinsic \in CaseLabels("NI_Vector128_StoreAligned") ->
                (Require(c.numArgs = 2, Frame(c), StoreSwapped("gtNewSimdStoreAlignedNode", c)))
        \* lines 2378-2402
        [] c.intrinsic \in CaseLabels("NI_Vector128_StoreAlignedNonTemporal") ->
                (Require(c.numArgs = 2, Frame(c), StoreSwapped("gtNewSimdStoreNonTemporalNode", c)))
        [] c.intrinsic \in CaseLabels("NI_Vector128_Sum") -> case_NI_Vector128_Sum(c)
        [] c.intrinsic \in CaseLabels("NI_Vector128_ToScalar") -> case_NI_Vector128_ToScalar(c)
        \* lines 2459-2468
        [] c.intrinsic \in CaseLabels("NI_Vector128_ToVector256") ->
                (Require(c.numArgs = 1 /\ compIsaSupportedDebugOnly(c, "InstructionSet_AVX"), Frame(c),
                Unary("gtNewSimdHWIntrinsicNode", c.intrinsic, c)))
        \* lines 2470-2478
        [] c.intrinsic \in CaseLabels("NI_Vector256_GetLower") ->
                (Require(c.numArgs = 1 /\ compIsaSupportedDebugOnly(c, "InstructionSet_AVX"), Frame(c),
                Unary("gtNewSimdGetLowerNode", "", c)))
        \* lines 2480-2488
        [] c.intrinsic \in CaseLabels("NI_Vector256_GetUpper") ->
                (Require(c.numArgs = 1 /\ compIsaSupportedDebugOnly(c, "InstructionSet_AVX"), Frame(c),
                Unary("gtNewSimdGetUpperNode", "", c)))
        \* lines 2490-2498
        [] c.intrinsic \in CaseLabels("NI_Vector512_GetLower") ->
                (Require(c.numArgs = 1 /\ IsBaselineVector512IsaSupportedDebugOnly(c), Frame(c),
                Unary("gtNewSimdGetLowerNode", "", c)))
        \* lines 2500-2508
        [] c.intrinsic \in CaseLabels("NI_Vector512_GetUpper") ->
                (Require(c.numArgs = 1 /\ IsBaselineVector512IsaSupportedDebugOnly(c), Frame(c),
                Unary("gtNewSimdGetUpperNode", "", c)))
        \* lines 2510-2521
        [] c.intrinsic \in CaseLabels("NI_Vector128_ToVector512") ->
                (Require(c.numArgs = 1 /\ IsBaselineVector512IsaSupportedDebugOnly(c), Frame(c),
                Unary("gtNewSimdHWIntrinsicNode", c.intrinsic, c)))
        [] c.intrinsic \in CaseLabels("NI_Vector128_WidenLower") -> case_NI_Vector128_WidenLower(c)
        [] c.intrinsic \in CaseLabels("NI_Vector128_WidenUpper") -> case_NI_Vector128_WidenUpper(c)
        [] c.intrinsic \in CaseLabels("NI_Vector128_WithElement") -> case_NI_Vector128_WithElement(c)
        \* lines 2620-2629
        [] c.intrinsic \in CaseLabels("NI_Vector256_WithLower") ->
                (Require(c.numArgs = 2 /\ compIsaSupportedDebugOnly(c, "InstructionSet_AVX"), Frame(c),
                Binary("gtNewSimdWithLowerNode", "", c)))
        \* lines 2631-2640
        [] c.intrinsic \in CaseLabels("NI_Vector256_WithUpper") ->
                (Require(c.numArgs = 2 /\ compIsaSupportedDebugOnly(c, "InstructionSet_AVX"), Frame(c),
                Binary("gtNewSimdWithUpperNode", "", c)))
        \* lines 2642-2651
        [] c.intrinsic \in CaseLabels("NI_Vector512_WithLower") ->
                (Require(c.numArgs = 2 /\ IsBaselineVector512IsaSupportedDebugOnly(c), Frame(c),
                Binary("gtNewSimdWithLowerNode", "", c)))
        \* lines 2653-2662
        [] c.intrinsic \in CaseLabels("NI_Vector512_WithUpper") ->
                (Require(c.numArgs = 2 /\ IsBaselineVector512IsaSupportedDebugOnly(c), Frame(c),
                Binary("gtNewSimdWithUpperNode", "", c)))
        \* lines 2664-2678
        [] c.intrinsic \in CaseLabels("NI_Vector128_Xor") ->
                (Require(c.numArgs = 2, Frame(c), Binary("gtNewSimdBinOpNode", "GT_XOR", c)))
        \* lines 2680-2689
        [] c.intrinsic \in CaseLabels("NI_X86Base_Pause") ->
                (Require(c.numArgs = 0 /\ c.simdSize = 0, Frame(c),
                Ret(Node("gtNewScalarHWIntrinsicNode", c.intrinsic, <<>>, "TYP_UNKNOWN", 0), Frame(c))))
        [] c.intrinsic \in CaseLabels("NI_X86Base_DivRem") -> case_NI_X86Base_DivRem(c)
        \* lines 2713-2754
        [] c.intrinsic \in CaseLabels("NI_SSE_CompareScalarGreaterThan") ->
                (Require(c.numArgs = 2 /\ c.simdBaseType = "TYP_FLOAT", Frame(c),
                CompareScalarGreater(c, "NI_SSE_MoveScalar")))
        \* lines 2756-2766
        [] c.intrinsic \in CaseLabels("NI_SSE_Prefetch0") ->
                (Require(c.numArgs = 1, Frame(c),
                LET p == impPopStack(Frame(c))
                IN  Ret(Node("gtNewSimdHWIntrinsicNode", c.intrinsic, <<p.val>>, "TYP_UBYTE", 0), p.f)))
        \* lines 2768-2772
        [] c.intrinsic \in CaseLabels("NI_SSE_StoreFence") ->
                (Require(c.numArgs = 0, Frame(c),
                Ret(Node("gtNewScalarHWIntrinsicNode", c.intrinsic, <<>>, "TYP_UNKNOWN", 0), Frame(c))))
        \* lines 2774-2814
        [] c.intrinsic \in CaseLabels("NI_SSE2_CompareScalarGreaterThan") ->
                (Require(c.numArgs = 2 /\ c.simdBaseType = "TYP_DOUBLE", Frame(c),
                CompareScalarGreater(c, "NI_SSE2_MoveScalar")))
        \* lines 2816-2825
        [] c.intrinsic \in CaseLabels("NI_SSE2_LoadFence") ->
                (Require(c.numArgs = 0 /\ c.simdSize = 0, Frame(c),
                Ret(Node("gtNewScalarHWIntrinsicNode", c.intrinsic, <<>>, "TYP_UNKNOWN", 0), Frame(c))))
        [] c.intrinsic \in CaseLabels("NI_SSE2_StoreNonTemporal") -> case_NI_SSE2_StoreNonTemporal(c)
        [] c.intrinsic \in CaseLabels("NI_AVX2_PermuteVar8x32") -> case_NI_AVX2_PermuteVar8x32(c)
        [] c.intrinsic \in CaseLabels("NI_AVX2_GatherMaskVector128") -> case_NI_AVX2_GatherMaskVector128(c)
        [] c.intrinsic \in CaseLabels("NI_BMI2_ZeroHighBits") -> case_NI_BMI2_ZeroHighBits(c)
        [] c.intrinsic \in CaseLabels("NI_BMI1_BitFieldExtract") -> case_NI_BMI1_BitFieldExtract(c)
        [] OTHER -> Ret(NullNode, Frame(c))  \* default, lines 2930-2933

---------------------------------------------------------------------------
(* The calls the importer makes: signature data and operands on the stack  *)

\* intrinsics that reach the default case of the switch
OtherIds == {"NI_Vector512_Abs", "NI_SSE_Add", "NI_Illegal"}

NamedIntrinsics == SwitchIds \cup OtherIds

\* most arguments any signature of the switch has (the gather forms)
MaxNumArgs == 5

\* simdSize the caller passes for an intrinsic: the size of its vector class, 0
\* for the scalar intrinsics; for AsVector128 the size of the argument's class
SimdSizesOf(id) ==
    CASE id = "NI_Vector128_AsVector128" -> {8, 12, 16, 32}
      [] id \in Size16Ids \cup {"NI_SSE_Add"} -> {16}
      [] id \in Size32Ids -> {32}
      [] id \in Size64Ids \cup {"NI_Vector512_Abs"} -> {64}
      [] OTHER -> {0}

\* the instruction sets the case of an intrinsic asks the compilation about
\* (its own checks and asserts and those of the case it re-dispatches to)
ConsultedIsas(id) ==
    (IF id \in CaseLabels("NI_Vector128_Abs") \cup CaseLabels("NI_Vector128_Add") \cup CaseLabels("NI_Vector128_Dot")
               \cup CaseLabels("NI_Vector128_Equals") \cup CaseLabels("NI_Vector128_EqualsAll")
               \cup CaseLabels("NI_Vector128_EqualsAny") \cup CaseLabels("NI_Vector128_ExtractMostSignificantBits")
               \cup CaseLabels("NI_Vector128_GreaterThan") \cup CaseLabels("NI_Vector128_GreaterThanAll")
               \cup CaseLabels("NI_Vector128_GreaterThanAny") \cup CaseLabels("NI_Vector128_GreaterThanOrEqual")
               \cup CaseLabels("NI_Vector128_GreaterThanOrEqualAll") \cup CaseLabels("NI_Vector128_GreaterThanOrEqualAny")
               \cup CaseLabels("NI_Vector128_LessThan") \cup CaseLabels("NI_Vector128_LessThanAll")
               \cup CaseLabels("NI_Vector128_LessThanAny") \cup CaseLabels("NI_Vector128_LessThanOrEqual")
               \cup CaseLabels("NI_Vector128_LessThanOrEqualAll") \cup CaseLabels("NI_Vector128_LessThanOrEqualAny")
               \cup CaseLabels("NI_Vector128_Max") \cup CaseLabels("NI_Vector128_Min") \cup CaseLabels("NI_Vector128_Multiply")
               \cup CaseLabels("NI_Vector128_Narrow") \cup CaseLabels("NI_Vector128_Negate")
               \cup CaseLabels("NI_Vector128_op_Inequality") \cup CaseLabels("NI_Vector128_Subtract")
               \cup CaseLabels("NI_Vector128_ShiftLeft") \cup CaseLabels("NI_Vector128_ShiftRightArithmetic")
               \cup CaseLabels("NI_Vector128_ShiftRightLogical") \cup CaseLabels("NI_Vector128_Shuffle")
               \cup CaseLabels("NI_Vector128_Sum") \cup CaseLabels("NI_Vector128_WidenLower")
               \cup CaseLabels("NI_Vector128_WidenUpper")
     THEN {"InstructionSet_AVX2"} ELSE {})
    \cup
    (IF id \in CaseLabels("NI_Vector128_Ceiling") \cup CaseLabels("NI_Vector128_Floor") \cup CaseLabels("NI_Vector128_Dot")
               \cup CaseLabels("NI_Vector128_GetElement") \cup CaseLabels("NI_Vector128_WithElement")
     THEN {"InstructionSet_SSE41"} ELSE {})
    \cup
    (IF id \in CaseLabels("NI_Vector128_WithElement") THEN {"InstructionSet_SSE41_X64"} ELSE {})
    \cup
    (IF id \in CaseLabels("NI_Vector128_ExtractMostSignificantBits") \cup CaseLabels("NI_Vector128_Shuffle")
               \cup CaseLabels("NI_Vector128_Sum")
     THEN {"InstructionSet_SSSE3"} ELSE {})
    \cup
    (IF id \in CaseLabels("NI_Vector128_Sum") THEN {"InstructionSet_SSE3"} ELSE {})
    \cup
    (IF id \in CaseLabels("NI_Vector128_AsVector") \cup CaseLabels("NI_Vector128_AsVector128")
               \cup CaseLabels("NI_Vector256_AsVector") \cup CaseLabels("NI_Vector128_ToVector256")
               \cup CaseLabels("NI_Vector256_GetLower") \cup CaseLabels("NI_Vector256_GetUpper")
               \cup CaseLabels("NI_Vector256_WithLower") \cup CaseLabels("NI_Vector256_WithUpper")
               \cup CaseLabels("NI_SSE_CompareScalarGreaterThan") \cup CaseLabels("NI_SSE2_CompareScalarGreaterThan")
     THEN {"InstructionSet_AVX"} ELSE {})
    \cup
    (IF id \in CaseLabels("NI_Vector512_AsVector") \cup CaseLabels("NI_Vector512_EqualsAll")
               \cup CaseLabels("NI_Vector512_EqualsAny") \cup CaseLabels("NI_Vector512_ExtractMostSignificantBits")
               \cup CaseLabels("NI_Vector128_Narrow") \cup CaseLabels("NI_Vector512_op_Inequality")
               \cup CaseLabels("NI_Vector512_GetLower") \cup CaseLabels("NI_Vector512_GetUpper")
               \cup CaseLabels("NI_Vector128_ToVector512") \cup CaseLabels("NI_Vector128_WidenLower")
               \cup CaseLabels("NI_Vector128_WidenUpper") \cup CaseLabels("NI_Vector512_WithLower")
               \cup CaseLabels("NI_Vector512_WithUpper")
     THEN {"InstructionSet_AVX512F"} ELSE {})
    \cup
    (IF id \in CaseLabels("NI_Vector128_ShiftRightArithmetic") THEN {"InstructionSet_AVX512F_VL"} ELSE {})
    \cup
    (IF id \in CaseLabels("NI_Vector128_Multiply") THEN {"InstructionSet_AVX512DQ_VL"} ELSE {})

\* the instruction-set flags tried for a call: the flags its case reads, and
\* AVX2 for every intrinsic of the 32-byte class whether its case reads it or
\* not; no other flag is read by the call
IsaSetsOf(id) ==
    SUBSET (ConsultedIsas(id) \cup (IF id \in Size32Ids THEN {"InstructionSet_AVX2"} ELSE {}))

\* getSIMDVectorRegisterByteLength() is read by the AsVector cases only
RegLensOf(id) ==
    IF id \in CaseLabels("NI_Vector128_AsVector") \cup CaseLabels("NI_Vector256_AsVector") \cup CaseLabels("NI_Vector512_AsVector")
    THEN {XMM_REGSIZE_BYTES, YMM_REGSIZE_BYTES}
    ELSE {XMM_REGSIZE_BYTES}

BaseTypesOf(size) == IF size = 0 THEN {"TYP_UNKNOWN"} ELSE ArithmeticTypes

\* sig->numArgs: the cases that do not check it themselves get it here
NumArgsOf(id, base, size) ==
    CASE id \in CaseLabels("NI_Vector128_Create") -> {1, getSIMDVectorLength(size, base)}
      [] id \in CaseLabels("NI_AVX2_PermuteVar8x32") -> {2}
      [] id \in CaseLabels("NI_Vector512_ExtractMostSignificantBits") -> {1}
      [] id \in OtherIds -> {1, 2}
      [] OTHER -> 0 .. MaxNumArgs

Plain(n) == [k \in 1 .. n |-> Arg(k, "none", 0, <<>>)]

\* an index operand in position k: not a constant, or a constant at or next to
\* the ends of [0, count)
IndexOperands(k, count) ==
    {Arg(k, "none", 0, <<>>)}
        \cup {Arg(k, "int", v, <<>>) :
                v \in ((0 - IndexSlack) .. 0) \cup ((count - 1) .. (count - 1 + IndexSlack))}

\* constant shuffle index vectors: the identity with one position redirected to
\* a lane at a half boundary or out of range, and the all-out-of-range vector
ShuffleVectors(count) ==
    LET half == count \div 2
        identity == [i \in 1 .. count |-> i - 1]
        positions == {1, half, half + 1, count}
        values == {0, half - 1, half, count - 1, count}
    IN  {[identity EXCEPT ![p] = v] : p \in positions, v \in values}
            \cup {[i \in 1 .. count |-> count]}

\* positions of a Create argument list where one argument differs from the rest
OddPositions(n) == {1, (n + 1) \div 2, n}

CreateOperands(n, base) ==
    LET kind  == IF varTypeIsFloating(base) THEN "flt" ELSE "int"
        other == IF varTypeIsFloating(base) THEN "int" ELSE "flt"
        cnsBases == IF base \in {"TYP_BYTE", "TYP_SHORT"} THEN {0, -3} ELSE {0}
        allConst(b) == [k \in 1 .. n |-> Arg(k, kind, b + k, <<>>)]
        mem(a) == [k \in 1 .. n |-> [Arg(k, "none", 0, <<>>) EXCEPT !.addr = a[k]]]
        addrs == {[k \in 1 .. n |-> 0], [k \in 1 .. n |-> k], [k \in 1 .. n |-> n + 1 - k]}
                     \cup {[k \in 1 .. n |-> IF k >= j THEN k + 1 ELSE k] : j \in OddPositions(n) \ {1}}
    IN  {allConst(b) : b \in cnsBases}
          \cup {[allConst(0) EXCEPT ![j] = Arg(j, x, j, <<>>)] : j \in OddPositions(n), x \in {"none", other}}
          \cup {mem(a) : a \in addrs}

ScalarOperands == {Plain(1), <<Arg(1, "int", 1, <<>>)>>, <<Arg(1, "flt", 1, <<>>)>>}

\* the argument lists tried for a call, first source argument first
Operands(id, n, base, size) ==
    CASE id \in CaseLabels("NI_Vector128_GetElement") /\ n = 2 ->
            {[Plain(2) EXCEPT ![2] = a] : a \in IndexOperands(2, size \div genTypeSize(base))}
      [] id \in CaseLabels("NI_Vector128_WithElement") /\ n = 3 ->
            {[Plain(3) EXCEPT ![2] = a] : a \in IndexOperands(2, size \div genTypeSize(base))}
      [] id \in CaseLabels("NI_Vector128_Shuffle") /\ n \in {2, 3} ->
            {Plain(n)} \cup {[Plain(n) EXCEPT ![n] = Arg(n, "vec", 0, v)] :
                                v \in ShuffleVectors(size \div genTypeSize(base))}
      [] id \in CaseLabels("NI_Vector128_Create") /\ n > 1 -> CreateOperands(n, base)
      [] id \in CaseLabels("NI_Vector128_Create") \cup CaseLabels("NI_Vector128_CreateScalar")
                  \cup CaseLabels("NI_Vector128_CreateScalarUnsafe") /\ n = 1 -> ScalarOperands
      [] id \in CaseLabels("NI_SSE_LoadVector128") \cup CaseLabels("NI_Vector128_LoadAligned")
                  \cup CaseLabels("NI_Vector128_LoadAlignedNonTemporal") \cup CaseLabels("NI_SSE_Store")
                  \cup CaseLabels("NI_Vector128_Store") \cup CaseLabels("NI_Vector128_StoreAligned")
                  \cup CaseLabels("NI_Vector128_StoreAlignedNonTemporal") ->
            {Plain(n), [k \in 1 .. n |-> CastOfByref(k)]}
      [] id = "NI_Vector128_AsVector128" /\ size \in {8, 12} /\ n = 1 ->
            {Plain(1), <<Arg(1, "vec", 0, [i \in 1 .. (size \div 4) |-> i])>>}
      [] OTHER -> {Plain(n)}

\* what is on the expression stack below the call's arguments
Below == [i \in 1 .. NumBelow |-> Arg(0 - i, "none", 0, <<>>)]

\* class names handed to the lookups: the recognized ones, generic and nested
\* spellings, and names no group has an entry for
ClassNames ==
    {"Aes", "Avx", "Avx2", "Avx512BW", "Avx512CD", "Avx512DQ", "Avx512F", "AvxVnni",
     "Sse", "Sse2", "Sse3", "Ssse3", "Sse41", "Sse42", "Bmi1", "Bmi2", "Pclmulqdq", "Popcnt",
     "Vector128", "Vector256", "Vector512", "Vector128T", "Vector256T", "Vector512T",
     "Fma", "Lzcnt", "X86Base", "X86Serialize", "X64", "VL",
     "Avx3", "Avx512", "A", "Sse4", "Ssse", "Bmi", "B", "Pop", "Vector", "Vector64", "V",
     "Fma3", "X86", "ArmBase", "aes", ""}

\* the CORINFO_InstructionSet values the lookups take and give
InstructionSets ==
    LET lookedUp == {ValueOf(lookupInstructionSet(n)) : n \in ClassNames \ {"VL"}}
        vl       == {VLVersionOfIsa(i) : i \in lookedUp}
        x64      == {X64VersionOfIsa(i) : i \in lookedUp \cup vl}
        others   == {"InstructionSet_NONE", "InstructionSet_ILLEGAL", "InstructionSet_MOVBE"}
    IN  lookedUp \cup vl \cup x64 \cup others

\* intrinsics whose immediate bound is asked for
ImmIds ==
    {"NI_AVX_Compare", "NI_AVX_CompareScalar", "NI_AVX2_GatherVector128", "NI_AVX2_GatherVector256",
     "NI_AVX2_GatherMaskVector128", "NI_AVX2_GatherMaskVector256", "NI_SSE_Shuffle", "NI_SSE41_Blend",
     "NI_AVX2_Permute2x128", "NI_SSE2_ShiftLeftLogical", "NI_SSE2_ShiftRightLogical128BitLane",
     "NI_AVX_Permute"}

\* rows of the intrinsic table as the lookups read them
TableEntries ==
    [category : {"HW_Category_IMM", "HW_Category_SimpleSIMD"}, HasFullRangeImm : BOOLEAN]

\* intrinsics impNonConstFallback is asked about
FallbackIds ==
    NonConstFallbackIds \cup {"NI_AVX2_ShiftLeftLogicalVariable", "NI_SSE2_ShiftLeftLogical128BitLane",
                              "NI_SSE41_Blend", "NI_Vector128_ShiftLeft", "NI_Illegal"}

\* shapes of the shifted vector
FallbackSizes == {16, 32, 64}

FallbackBaseTypes == {"TYP_SHORT", "TYP_USHORT", "TYP_INT", "TYP_UINT", "TYP_LONG", "TYP_ULONG"}

---------------------------------------------------------------------------
(* The state machine *)

Init ==
    /\ targetX86 \in BOOLEAN
    /\ pc = "idle"
    /\ callee = "none"
    /\ intrinsic = "NI_Illegal"
    /\ numArgs = 0
    /\ simdBaseType = "TYP_UNKNOWN"
    /\ simdSize = 0
    /\ isaFlags = {}
    /\ regLen = XMM_REGSIZE_BYTES
    /\ stackBefore = Below
    /\ esStack = Below
    /\ retNode = NullNode
    /\ trace = <<>>
    /\ nested = <<>>
    /\ query = <<>>
    /\ answer = NoAnswer

\* the importer has pushed the arguments of an intrinsic call and calls
\* impSpecialIntrinsic, which returns
Import ==
    /\ pc = "idle"
    /\ \E id \in NamedIntrinsics :
       \E isa \in IsaSetsOf(id), rl \in RegLensOf(id) :
       \E size \in SimdSizesOf(id) :
       \E base \in BaseTypesOf(size) :
       \E n \in NumArgsOf(id, base, size) :
       \E args \in Operands(id, n, base, size) :
          LET c == [intrinsic |-> id, numArgs |-> n, simdBaseType |-> base, simdSize |-> size,
                    isaFlags |-> isa, regLen |-> rl, x86 |-> targetX86, stack |-> Below \o args]
              out == impSpecialIntrinsic(c)
          IN  /\ out.ok
              /\ pc' = "done"
              /\ callee' = "impSpecialIntrinsic"
              /\ intrinsic' = id
              /\ numArgs' = n
              /\ simdBaseType' = base
              /\ simdSize' = size
              /\ isaFlags' = isa
              /\ regLen' = rl
              /\ stackBefore' = c.stack
              /\ esStack' = out.stack
              /\ retNode' = out.retNode
              /\ trace' = out.trace
              /\ nested' = out.nested
    /\ UNCHANGED <<targetX86, query, answer>>

\* the importer goes on to the next call site
Return ==
    /\ pc = "done"
    /\ pc' = "idle"
    /\ callee' = "none"
    /\ intrinsic' = "NI_Illegal"
    /\ numArgs' = 0
    /\ simdBaseType' = "TYP_UNKNOWN"
    /\ simdSize' = 0
    /\ isaFlags' = {}
    /\ regLen' = XMM_REGSIZE_BYTES
    /\ stackBefore' = Below
    /\ esStack' = Below
    /\ retNode' = NullNode
    /\ trace' = <<>>
    /\ nested' = <<>>
    /\ query' = <<>>
    /\ answer' = NoAnswer
    /\ UNCHANGED targetX86

\* the importer has pushed a vector and a non-constant shift count and calls
\* impNonConstFallback, which returns
NonConstFallback ==
    /\ pc = "idle"
    /\ \E id \in FallbackIds, size \in FallbackSizes, base \in FallbackBaseTypes, flag \in BOOLEAN :
          LET c == [intrinsic |-> id, numArgs |-> 2, simdBaseType |-> base, simdSize |-> size,
                    NoJmpTableImm |-> flag, stack |-> Below \o Plain(2)]
              out == impNonConstFallback(c)
          IN  /\ out.ok
              /\ pc' = "done"
              /\ callee' = "impNonConstFallback"
              /\ intrinsic' = id
              /\ numArgs' = 2
              /\ simdBaseType' = base
              /\ simdSize' = size
              /\ stackBefore' = c.stack
              /\ esStack' = out.stack
              /\ retNode' = out.retNode
              /\ trace' = out.trace
    /\ UNCHANGED <<targetX86, isaFlags, regLen, nested, query, answer>>

\* a lookup is called with arguments args and returns or stops at an assert
Lookup(name, args, out) ==
    /\ pc = "idle"
    /\ pc' = "done"
    /\ callee' = name
    /\ query' = args
    /\ answer' = out
    /\ UNCHANGED <<targetX86, intrinsic, numArgs, simdBaseType, simdSize, isaFlags, regLen,
                   stackBefore, esStack, retNode, trace, nested>>

CallX64VersionOfIsa ==
    \E isa \in InstructionSets : Lookup("X64VersionOfIsa", <<isa>>, Returns(X64VersionOfIsa(isa)))

CallVLVersionOfIsa ==
    \E isa \in InstructionSets : Lookup("VLVersionOfIsa", <<isa>>, Returns(VLVersionOfIsa(isa)))

CallLookupInstructionSet ==
    \E className \in ClassNames \cup {NullName} :
        Lookup("lookupInstructionSet", <<className>>, lookupInstructionSet(className))

CallLookupIsa ==
    \E className \in ClassNames \cup {NullName}, enclosingClassName \in ClassNames \cup {NullName} :
        Lookup("lookupIsa", <<className, enclosingClassName>>, lookupIsa(className, enclosingClassName))

\* the row handed over is one the asserts of the lookup accept
CallLookupImmUpperBound ==
    \E id \in ImmIds, entry \in TableEntries :
        /\ Succeeded(lookupImmUpperBound(id, entry))
        /\ Lookup("lookupImmUpperBound", <<id, entry>>, lookupImmUpperBound(id, entry))

CallIsAVX2GatherIntrinsic ==
    \E id \in ImmIds \cup NamedIntrinsics :
        Lookup("isAVX2GatherIntrinsic", <<id>>, Returns(isAVX2GatherIntrinsic(id)))

CallIsFullyImplementedIsa ==
    \E isa \in InstructionSets :
        Lookup("isFullyImplementedIsa", <<isa>>, Returns(isFullyImplementedIsa(isa)))

CallIsScalarIsa ==
    \E isa \in InstructionSets : Lookup("isScalarIsa", <<isa>>, Returns(isScalarIsa(isa)))

CallLookupFloatComparisonModeForSwappedArgs ==
    \E comparison \in FloatComparisonModes :
        Lookup("lookupFloatComparisonModeForSwappedArgs", <<comparison>>,
               lookupFloatComparisonModeForSwappedArgs(comparison))

Next ==
    \/ Import
    \/ NonConstFallback
    \/ CallX64VersionOfIsa
    \/ CallVLVersionOfIsa
    \/ CallLookupInstructionSet
    \/ CallLookupIsa
    \/ CallLookupImmUpperBound
    \/ CallIsAVX2GatherIntrinsic
    \/ CallIsFullyImplementedIsa
    \/ CallIsScalarIsa
    \/ CallLookupFloatComparisonModeForSwappedArgs
    \/ Return

Spec == Init /\ [][Next]_vars

---------------------------------------------------------------------------
(* Properties of impSpecialIntrinsic *)

Returned == pc = "done" /\ callee = "impSpecialIntrinsic"

Declined == Returned /\ retNode.k = "null"

Specialized == Returned /\ retNode.k # "null"

\* the i-th source argument of the call (1-based) as it stood on the stack before the call
SourceArg(i) == stackBefore[Len(stackBefore) - numArgs + i]

\* the call popped exactly its n topmost operands and left the rest alone
PoppedExactly(n) ==
    /\ Len(esStack) = Len(stackBefore) - n
    /\ \A i \in 1 .. Len(esStack) : esStack[i].id = stackBefore[i].id

\* C1: whenever impSpecialIntrinsic returns nullptr, the expression stack has
\* the depth and the contents it had before the call, and the call performed
\* no stack operation: nothing was popped, nothing was spilled to a temporary.
C1_StackNeutralOnDecline == Declined => (esStack = stackBefore /\ trace = <<>>)

C1_Witness == Declined /\ intrinsic = "NI_Vector256_Divide" /\ numArgs = 2 /\ simdBaseType = "TYP_INT"

\* the two-operand cases whose operation depends on the order of its operands
OrderSensitiveBinaryIds ==
    CaseLabels("NI_Vector128_Subtract") \cup CaseLabels("NI_Vector128_Divide")
        \cup CaseLabels("NI_Vector128_GreaterThan") \cup CaseLabels("NI_Vector128_GreaterThanAll")
        \cup CaseLabels("NI_Vector128_GreaterThanAny") \cup CaseLabels("NI_Vector128_GreaterThanOrEqual")
        \cup CaseLabels("NI_Vector128_GreaterThanOrEqualAll") \cup CaseLabels("NI_Vector128_GreaterThanOrEqualAny")
        \cup CaseLabels("NI_Vector128_LessThan") \cup CaseLabels("NI_Vector128_LessThanAll")
        \cup CaseLabels("NI_Vector128_LessThanAny") \cup CaseLabels("NI_Vector128_LessThanOrEqual")
        \cup CaseLabels("NI_Vector128_LessThanOrEqualAll") \cup CaseLabels("NI_Vector128_LessThanOrEqualAny")
        \cup CaseLabels("NI_Vector128_Shuffle") \cup CaseLabels("NI_Vector128_Narrow")
        \cup CaseLabels("NI_Vector256_WithLower") \cup CaseLabels("NI_Vector256_WithUpper")
        \cup CaseLabels("NI_Vector512_WithLower") \cup CaseLabels("NI_Vector512_WithUpper")

\* C2: in the order-sensitive two-operand cases the node is built as (op1, op2)
\* with op1 the first source argument (below the top) and op2 the last (the
\* top); WithElement builds (vector, index, value) from its first, second
\* and third argument.
C2_OperandOrder ==
    /\ (Specialized /\ intrinsic \in OrderSensitiveBinaryIds) =>
           (retNode.ops = <<stackBefore[Len(stackBefore) - 1], stackBefore[Len(stackBefore)]>>)
    /\ (Specialized /\ intrinsic \in CaseLabels("NI_Vector128_WithElement")) =>
           (retNode.ops = <<SourceArg(1), SourceArg(2), SourceArg(3)>>)

C2_Witness ==
    Specialized /\ intrinsic = "NI_Vector128_Subtract"
        /\ retNode.ops[1].id = 1 /\ retNode.ops[2].id = 2

\* the cases that hand their operands to the node in another order than the source order
ReorderingIds ==
    CaseLabels("NI_AVX2_PermuteVar8x32") \cup CaseLabels("NI_Vector128_Store") \cup CaseLabels("NI_Vector128_StoreAligned")
        \cup CaseLabels("NI_Vector128_StoreAlignedNonTemporal") \cup CaseLabels("NI_BMI2_ZeroHighBits")
        \cup CaseLabels("NI_BMI1_BitFieldExtract")

CompareScalarGreaterIds ==
    CaseLabels("NI_SSE_CompareScalarGreaterThan") \cup CaseLabels("NI_SSE2_CompareScalarGreaterThan")

\* C3: every case that builds its node with the operands out of source order
\* (and the CompareScalarGreaterThan family without AVX) spills the first
\* source argument with impSpillSideEffect before its first pop.
C3_SpillBeforeReorder ==
    (Specialized /\ (intrinsic \in ReorderingIds
                       \/ (intrinsic \in CompareScalarGreaterIds /\ "InstructionSet_AVX" \notin isaFlags))) =>
        /\ trace # <<>>
        /\ trace[1] = [ev |-> "spill", slot |-> Len(stackBefore) - numArgs + 1]

\* C4: Add / op_Addition on a 32-byte integer vector declines with nothing
\* popped when AVX2 is not available, and with AVX2 pops exactly two operands
\* and returns the GT_ADD node over the 32-byte shape on (first, second argument).
C4_Add256Integer ==
    (Returned /\ intrinsic \in CaseLabels("NI_Vector128_Add") /\ simdSize = 32 /\ varTypeIsIntegral(simdBaseType)) =>
        IF "InstructionSet_AVX2" \in isaFlags
        THEN /\ PoppedExactly(2)
             /\ retNode.k = "gtNewSimdBinOpNode"
             /\ retNode.oper = "GT_ADD"
             /\ retNode.size = 32
             /\ retNode.base = simdBaseType
             /\ retNode.ops = <<SourceArg(1), SourceArg(2)>>
        ELSE retNode.k = "null" /\ esStack = stackBefore

C4_Witness ==
    Specialized /\ intrinsic = "NI_Vector256_op_Addition" /\ simdBaseType = "TYP_UINT"
        /\ "InstructionSet_AVX2" \in isaFlags

\* the call as the state records it
ThisCall ==
    [intrinsic |-> intrinsic, numArgs |-> numArgs, simdBaseType |-> simdBaseType, simdSize |-> simdSize,
     isaFlags |-> isaFlags, regLen |-> regLen, x86 |-> targetX86, stack |-> stackBefore]

\* the same call in a compilation that differs in the AVX2 flag only
Avx2Toggled ==
    impSpecialIntrinsic(
        [ThisCall EXCEPT !.isaFlags = IF "InstructionSet_AVX2" \in isaFlags
                                      THEN isaFlags \ {"InstructionSet_AVX2"}
                                      ELSE isaFlags \cup {"InstructionSet_AVX2"}])

\* the cases of the vector classes (Vector128 / Vector256 / Vector512 and Vector<T>)
VectorApiIds ==
    {id \in SwitchIds : \E p \in {"NI_Vector128_", "NI_Vector256_", "NI_Vector512_"} :
        /\ Len(id) > Len(p)
        /\ SubSeq(id, 1, Len(p)) = p}

\* the cases that test compExactlyDependsOn(AVX2) (Sum: opportunistically) for
\* a 32-byte vector of any element kind
Avx2AnyKindIds ==
    CaseLabels("NI_Vector128_EqualsAny")
        \cup CaseLabels("NI_Vector128_GreaterThanAll") \cup CaseLabels("NI_Vector128_GreaterThanAny")
        \cup CaseLabels("NI_Vector128_GreaterThanOrEqualAll") \cup CaseLabels("NI_Vector128_GreaterThanOrEqualAny")
        \cup CaseLabels("NI_Vector128_LessThanAll") \cup CaseLabels("NI_Vector128_LessThanAny")
        \cup CaseLabels("NI_Vector128_LessThanOrEqualAll") \cup CaseLabels("NI_Vector128_LessThanOrEqualAny")
        \cup CaseLabels("NI_Vector128_ShiftLeft") \cup CaseLabels("NI_Vector128_ShiftRightArithmetic")
        \cup CaseLabels("NI_Vector128_ShiftRightLogical") \cup CaseLabels("NI_Vector128_Shuffle")
        \cup CaseLabels("NI_Vector128_Sum")

\* the cases that test AVX2 for a 32-byte vector unless its elements are floating point
Avx2IntegerKindIds ==
    CaseLabels("NI_Vector128_Add") \cup CaseLabels("NI_Vector128_Dot") \cup CaseLabels("NI_Vector128_Equals")
        \cup CaseLabels("NI_Vector128_EqualsAll") \cup CaseLabels("NI_Vector128_ExtractMostSignificantBits")
        \cup CaseLabels("NI_Vector128_GreaterThan") \cup CaseLabels("NI_Vector128_GreaterThanOrEqual")
        \cup CaseLabels("NI_Vector128_LessThan") \cup CaseLabels("NI_Vector128_LessThanOrEqual")
        \cup CaseLabels("NI_Vector128_Max") \cup CaseLabels("NI_Vector128_Min") \cup CaseLabels("NI_Vector128_Multiply")
        \cup CaseLabels("NI_Vector128_Narrow") \cup CaseLabels("NI_Vector128_Negate")
        \cup CaseLabels("NI_Vector128_op_Inequality") \cup CaseLabels("NI_Vector128_Subtract")
        \cup CaseLabels("NI_Vector128_WidenLower") \cup CaseLabels("NI_Vector128_WidenUpper")

\* the cases that build their node for a 32-byte integer vector without asking for AVX2
UngatedBitwiseIds ==
    CaseLabels("NI_Vector128_BitwiseAnd") \cup CaseLabels("NI_Vector128_BitwiseOr") \cup CaseLabels("NI_Vector128_Xor")
        \cup CaseLabels("NI_Vector128_AndNot") \cup CaseLabels("NI_Vector128_ConditionalSelect")
        \cup CaseLabels("NI_Vector128_OnesComplement")

Integer256 == Returned /\ simdSize = 32 /\ varTypeIsIntegral(simdBaseType)

Floating256 == Returned /\ simdSize = 32 /\ varTypeIsFloating(simdBaseType)

\* C5 as the specification states it: every vector case called with a 32-byte
\* integer vector returns a node only if AVX2 is available.
C5_Original_EveryInteger256CaseNeedsAvx2 ==
    (Integer256 /\ intrinsic \in VectorApiIds /\ retNode.k # "null") => "InstructionSet_AVX2" \in isaFlags

\* C5 (amended): the cases that carry the AVX2 test (Add, Dot, Equals,
\* EqualsAll, EqualsAny, ExtractMostSignificantBits, the twelve ordering
\* comparisons, Max, Min, Multiply, Narrow, Negate, op_Inequality, Subtract,
\* the shifts, Shuffle, Sum, WidenLower, WidenUpper, and Abs on a signed
\* element kind) return a node for a 32-byte integer vector only if AVX2 is
\* available; the bitwise cases BitwiseAnd, BitwiseOr, Xor, AndNot,
\* ConditionalSelect and OnesComplement return their node for a 32-byte
\* integer vector whether or not AVX2 is available.
C5_GatedInteger256CasesNeedAvx2 ==
    /\ (Integer256 /\ retNode.k # "null"
          /\ (intrinsic \in Avx2IntegerKindIds \cup Avx2AnyKindIds
                \/ (intrinsic \in CaseLabels("NI_Vector128_Abs") /\ ~varTypeIsUnsigned(simdBaseType)))) =>
           "InstructionSet_AVX2" \in isaFlags
    /\ (Integer256 /\ intrinsic \in UngatedBitwiseIds) => retNode.k # "null"

C5_Witness ==
    Declined /\ intrinsic = "NI_Vector256_Equals" /\ simdBaseType = "TYP_SHORT" /\ numArgs = 2
        /\ "InstructionSet_AVX2" \notin isaFlags

ValidIndex(indexOp) ==
    /\ indexOp.cns = "int"
    /\ indexOp.ival >= 0
    /\ indexOp.ival < simdSize \div genTypeSize(simdBaseType)

\* C7: a WithElement call whose index operand (second from the top) is not a
\* constant or is a constant outside [0, simdSize / elementSize) returns null
\* with nothing popped; a node is returned only for a constant index inside
\* the range and carries that index operand unchanged as its second operand.
C7_WithElementRejection ==
    (Returned /\ intrinsic \in CaseLabels("NI_Vector128_WithElement")) =>
        LET indexOp == stackBefore[Len(stackBefore) - 1]
        IN  /\ ~ValidIndex(indexOp) => (retNode.k = "null" /\ esStack = stackBefore /\ trace = <<>>)
            /\ retNode.k # "null" => (ValidIndex(indexOp) /\ retNode.ops[2] = indexOp /\ PoppedExactly(3))

C7_Witness ==
    Declined /\ intrinsic = "NI_Vector256_WithElement" /\ simdBaseType = "TYP_FLOAT"
        /\ stackBefore[Len(stackBefore) - 1].cns = "int"
        /\ stackBefore[Len(stackBefore) - 1].ival = 8

\* C8 as the specification states it: a GetElement call whose index operand
\* (top of the stack) is not a constant or is out of range returns null.
C8_Original_GetElementRejection ==
    (Returned /\ intrinsic \in CaseLabels("NI_Vector128_GetElement")
        /\ ~ValidIndex(stackBefore[Len(stackBefore)])) =>
        retNode.k = "null"

\* C8 (amended): GetElement does not look at its index operand: it declines,
\* with nothing popped, exactly when the element kind is byte, ubyte, int,
\* uint, long or ulong and SSE4.1 is not available; in every other call,
\* whatever the index operand (not a constant, or a constant inside or
\* outside the range), it pops both operands and returns the get-element node
\* on (vector, index) with the index operand unchanged.
C8_GetElementIgnoresIndex ==
    (Returned /\ intrinsic \in CaseLabels("NI_Vector128_GetElement")) =>
        IF simdBaseType \in {"TYP_BYTE", "TYP_UBYTE", "TYP_INT", "TYP_UINT", "TYP_LONG", "TYP_ULONG"}
              /\ "InstructionSet_SSE41" \notin isaFlags
        THEN retNode.k = "null" /\ esStack = stackBefore /\ trace = <<>>
        ELSE /\ retNode.k = "gtNewSimdGetElementNode"
             /\ retNode.ops = <<SourceArg(1), SourceArg(2)>>
             /\ PoppedExactly(2)

C8_Witness ==
    Specialized /\ intrinsic = "NI_Vector128_GetElement" /\ simdBaseType = "TYP_SHORT"
        /\ stackBefore[Len(stackBefore)].cns = "int"
        /\ stackBefore[Len(stackBefore)].ival = 8

\* an in-range index of the constant index vector points from one 128-bit
\* half of the destination into the other half of the source
CrossesHalf(indices, count) ==
    \E i \in 0 .. count - 1 :
        LET value == indices[i + 1]
        IN  /\ value < count
            /\ (i < count \div 2) # (value < count \div 2)

\* C9: Shuffle on a 32-byte vector of 1- or 2-byte elements with a constant
\* index vector declines and pops nothing when an in-range index crosses the
\* 128-bit half boundary; it returns a node only when none does.
C9_LaneCrossingShuffle ==
    (Returned /\ intrinsic \in CaseLabels("NI_Vector128_Shuffle") /\ simdSize = 32
        /\ genTypeSize(simdBaseType) \in {1, 2} /\ stackBefore[Len(stackBefore)].cns = "vec") =>
        LET indices == stackBefore[Len(stackBefore)].vval
            count   == simdSize \div genTypeSize(simdBaseType)
        IN  /\ CrossesHalf(indices, count) => (retNode.k = "null" /\ esStack = stackBefore /\ trace = <<>>)
            /\ retNode.k # "null" => ~CrossesHalf(indices, count)

C9_Witness ==
    Declined /\ intrinsic = "NI_Vector256_Shuffle" /\ simdBaseType = "TYP_USHORT" /\ numArgs = 2
        /\ "InstructionSet_AVX2" \in isaFlags
        /\ stackBefore[Len(stackBefore)].cns = "vec"
        /\ stackBefore[Len(stackBefore)].vval[9] = 7

\* every argument of the call is a constant of the element kind
AllArgsConstant ==
    \A i \in 1 .. numArgs :
        SourceArg(i).cns = (IF varTypeIsFloating(simdBaseType) THEN "flt" ELSE "int")

\* lane holds value in the width of the element kind
LaneHolds(lane, value) ==
    IF genTypeSize(simdBaseType) = 1
    THEN lane \in 0 .. 255 /\ (lane - value) % 256 = 0
    ELSE IF genTypeSize(simdBaseType) = 2
    THEN lane \in 0 .. 65535 /\ (lane - value) % 65536 = 0
    ELSE lane = value

FoldedCreate == Returned /\ intrinsic \in CaseLabels("NI_Vector128_Create") /\ numArgs > 1 /\ AllArgsConstant

\* C10 as the specification states it: lane i of the constant vector of a
\* Create call with N > 1 constant arguments holds the value of argument N-1-i.
C10_Original_LaneHoldsMirroredArgument ==
    FoldedCreate =>
        /\ retNode.k = "gtNewVconNode"
        /\ Len(retNode.vval) = numArgs
        /\ \A i \in 0 .. numArgs - 1 : LaneHolds(retNode.vval[i + 1], SourceArg((numArgs - 1 - i) + 1).ival)

\* C10 (amended): a Create call with N > 1 arguments that are all constants
\* of the element kind pops them all and returns a constant vector whose lane
\* i (0-based from the least significant) holds the value of the i-th source
\* argument (0-based, left to right), for every element kind and width.
C10_LaneHoldsSameArgument ==
    FoldedCreate =>
        /\ retNode.k = "gtNewVconNode"
        /\ retNode.size = simdSize
        /\ Len(retNode.vval) = numArgs
        /\ \A i \in 0 .. numArgs - 1 : LaneHolds(retNode.vval[i + 1], SourceArg(i + 1).ival)
        /\ PoppedExactly(numArgs)

C10_Witness ==
    FoldedCreate /\ intrinsic = "NI_Vector256_Create" /\ simdBaseType = "TYP_SHORT"
        /\ SourceArg(1).ival = -2 /\ retNode.vval[1] = 65534 /\ retNode.vval[16] = 13


\* the j-th event of the call is the pop of the j-th slot from the top
PopsLastToFirst ==
    /\ Len(trace) = numArgs
    /\ \A j \in 1 .. numArgs : trace[j] = [ev |-> "pop", slot |-> Len(stackBefore) - j + 1]

\* C11: in the constant-folding path of Create the arguments are popped
\* last-to-first, the j-th pop (j = 1 .. count) fills lane count-j with the
\* value just popped, so the k-th source argument ends in lane k; this holds
\* for every element kind, double included.
C11_FoldPopOrderFillsLanesDownward ==
    FoldedCreate =>
        /\ retNode.k = "gtNewVconNode"
        /\ PopsLastToFirst
        /\ \A j \in 1 .. numArgs :
              LaneHolds(retNode.vval[(numArgs - j) + 1], stackBefore[trace[j].slot].ival)
        /\ \A k \in 0 .. numArgs - 1 :
              stackBefore[trace[numArgs - k].slot] = SourceArg(k + 1)

C11_Witness ==
    FoldedCreate /\ simdBaseType = "TYP_DOUBLE" /\ intrinsic = "NI_Vector256_Create"
        /\ PopsLastToFirst /\ retNode.vval[1] # retNode.vval[4]
        /\ retNode.vval[4] = SourceArg(4).ival /\ SourceArg(4).ival # 0

\* a Create call of any argument count whose arguments are all constants of the element kind
ConstantCreate ==
    Returned /\ intrinsic \in CaseLabels("NI_Vector128_Create") /\ numArgs >= 1 /\ AllArgsConstant

\* C12: every Create call whose source arguments are all literal constants
\* of the element kind, for any argument count (the one-argument broadcast
\* form included), pops its arguments and returns a constant-vector literal
\* node, never a create or broadcast construction node and never null.
C12_ConstantCreateIsFolded ==
    ConstantCreate =>
        /\ retNode.k = "gtNewVconNode"
        /\ retNode.cns = "vec"
        /\ Len(retNode.vval) = getSIMDVectorLength(simdSize, simdBaseType)
        /\ retNode.ops = <<>>
        /\ PoppedExactly(numArgs)

C12_Witness ==
    ConstantCreate /\ numArgs = 1 /\ targetX86 /\ simdBaseType = "TYP_LONG"
        /\ retNode.k = "gtNewVconNode" /\ retNode.vval = <<1, 1>>

\* impNonConstFallback has returned
FellBack == pc = "done" /\ callee = "impNonConstFallback"

\* the nodes built by the call in the tree under n (operands the caller pushed are not built)
RECURSIVE ConstructedNodes(_)
ConstructedNodes(n) ==
    IF n.k \in {"arg", "null"}
    THEN 0
    ELSE 1 + (IF Len(n.ops) = 0 THEN 0
              ELSE IF Len(n.ops) = 1 THEN ConstructedNodes(n.ops[1])
              ELSE ConstructedNodes(n.ops[1]) + ConstructedNodes(n.ops[2]))

\* C13 (scenario B): impNonConstFallback called for one of its thirteen shift
\* intrinsics with the stack [..., vector, count] spills the second-from-top
\* entry (the vector) once, before either pop, then pops the count and then
\* the vector, and returns exactly two constructed nodes: the conversion of
\* the count to a 128-bit vector and the original shift intrinsic applied to
\* (vector, converted count) with the original base type and size.
C13_FallbackSpillsThenPopsAndBuildsTwoNodes ==
    (FellBack /\ intrinsic \in NonConstFallbackIds) =>
        LET depth == Len(stackBefore)
        IN  /\ trace = << [ev |-> "spill", slot |-> depth - 1],
                          [ev |-> "pop", slot |-> depth],
                          [ev |-> "pop", slot |-> depth - 1] >>
            /\ PoppedExactly(2)
            /\ retNode.k = "gtNewSimdHWIntrinsicNode"
            /\ retNode.oper = intrinsic
            /\ retNode.base = simdBaseType
            /\ retNode.size = simdSize
            /\ Len(retNode.ops) = 2
            /\ retNode.ops[1] = [SourceArg(1) EXCEPT !.tmp = TRUE]
            /\ retNode.ops[2].k = "gtNewSimdHWIntrinsicNode"
            /\ retNode.ops[2].oper = "NI_SSE2_ConvertScalarToVector128Int32"
            /\ retNode.ops[2].size = 16
            /\ retNode.ops[2].ops = <<SourceArg(2)>>
            /\ ConstructedNodes(retNode) = 2

C13_Witness ==
    FellBack /\ intrinsic = "NI_SSE2_ShiftLeftLogical" /\ simdSize = 16
        /\ Len(trace) = 3 /\ trace[1].ev = "spill" /\ retNode.oper = "NI_SSE2_ShiftLeftLogical"
        /\ ~SourceArg(1).tmp /\ retNode.ops[1].tmp

\* C14: for every intrinsic outside its thirteen shift intrinsics
\* impNonConstFallback returns null without spilling or popping: the
\* expression stack is unchanged.
C14_NoFallbackOutsideTheSet ==
    (FellBack /\ intrinsic \notin NonConstFallbackIds) =>
        /\ retNode = NullNode
        /\ trace = <<>>
        /\ esStack = stackBefore

C14_Witness ==
    FellBack /\ intrinsic = "NI_AVX2_ShiftLeftLogicalVariable" /\ retNode.k = "null"
        /\ Len(esStack) = NumBelow + 2

\* a Create call with four arguments, none of them a constant
ScenarioC ==
    /\ Returned /\ intrinsic \in CaseLabels("NI_Vector128_Create") /\ numArgs = 4
    /\ \A i \in 1 .. 4 : SourceArg(i).cns = "none"

\* each argument is read from the memory slot right after the one before it
PairwiseContiguous == \A i \in 1 .. 3 : areArgumentsContiguous(SourceArg(i), SourceArg(i + 1))

\* the call popped its four operands and returned one load addressed at the first argument
SingleLoadAtFirstArgument ==
    /\ retNode.k = "gtNewOperNode" /\ retNode.oper = "GT_IND"
    /\ Len(retNode.ops) = 1
    /\ retNode.ops[1].k = "CreateAddressNodeForSimdHWIntrinsicCreate"
    /\ retNode.ops[1].ops = <<SourceArg(1)>>
    /\ PoppedExactly(4)

\* the call popped its four operands and returned the construction node on them, in source order
ConstructionNodeOfFour ==
    /\ retNode.k = "gtNewSimdHWIntrinsicNode" /\ retNode.oper = intrinsic
    /\ retNode.ops = <<SourceArg(1), SourceArg(2), SourceArg(3), SourceArg(4)>>
    /\ PoppedExactly(4)

\* C15 as the specification states it: four non-constant float arguments that
\* are pairwise contiguous give a single load at the first argument; if a pair
\* is not contiguous or the element kind is not float, the construction node
\* is returned.
C15_Original_LoadOrConstructionNode ==
    ScenarioC =>
        IF simdBaseType = "TYP_FLOAT" /\ PairwiseContiguous
        THEN SingleLoadAtFirstArgument
        ELSE ConstructionNodeOfFour

\* C15 (amended): as above, except that in a TARGET_X86 build a call whose
\* element kind is long or ulong declines: it returns null and pops nothing.
C15_LoadOrConstructionNodeOrX86LongDecline ==
    ScenarioC =>
        IF targetX86 /\ varTypeIsLong(simdBaseType)
        THEN retNode = NullNode /\ esStack = stackBefore /\ trace = <<>>
        ELSE IF simdBaseType = "TYP_FLOAT" /\ PairwiseContiguous
        THEN SingleLoadAtFirstArgument
        ELSE ConstructionNodeOfFour

C15_Witness ==
    ScenarioC /\ simdBaseType = "TYP_FLOAT" /\ PairwiseContiguous /\ retNode.oper = "GT_IND"
        /\ SourceArg(1).addr = 1 /\ SourceArg(4).addr = 4 /\ Len(esStack) = NumBelow

\* a lookup has returned or stopped at an assert
LookedUp(name) == pc = "done" /\ callee = name

\* the comparison modes the swap leaves as they are
SwapFixedPoints ==
    {p \in FloatComparisonModes : lookupFloatComparisonModeForSwappedArgs(p) = Returns(p)}

\* the two-element sets {p, swap of p} of the other modes
SwapPairs ==
    {{p, ValueOf(lookupFloatComparisonModeForSwappedArgs(p))} : p \in FloatComparisonModes \ SwapFixedPoints}

\* C16: for each of the 32 FloatComparisonMode values p the swapped-args
\* lookup applied twice gives p back; exactly 16 values are fixed points and
\* the other 16 form 8 two-element swap pairs.
C16_SwappedArgsInvolution ==
    LookedUp("lookupFloatComparisonModeForSwappedArgs") =>
        /\ Succeeded(answer)
        /\ ValueOf(answer) \in FloatComparisonModes
        /\ lookupFloatComparisonModeForSwappedArgs(ValueOf(answer)) = Returns(query[1])
        /\ Cardinality(FloatComparisonModes) = 32
        /\ Cardinality(SwapFixedPoints) = 16
        /\ Cardinality(SwapPairs) = 8
        /\ \A pair \in SwapPairs : Cardinality(pair) = 2 /\ pair \cap SwapFixedPoints = {}
        /\ (query[1] \in SwapFixedPoints <=> ValueOf(answer) = query[1])

C16_Witness ==
    LookedUp("lookupFloatComparisonModeForSwappedArgs")
        /\ query = <<"UnorderedNotLessThanNonSignaling">>
        /\ answer = Returns("UnorderedNotGreaterThanNonSignaling")

\* the four AVX2 gather intrinsics
Avx2GatherIds ==
    {"NI_AVX2_GatherVector128", "NI_AVX2_GatherVector256",
     "NI_AVX2_GatherMaskVector128", "NI_AVX2_GatherMaskVector256"}

\* C17: for every intrinsic of the immediate category lookupImmUpperBound
\* returns 31 exactly for AVX Compare and AVX CompareScalar, 8 exactly for
\* the four AVX2 gather intrinsics and 255 for every other one, no other
\* value; 8 is returned exactly for the intrinsics isAVX2GatherIntrinsic
\* holds for.
C17_ImmUpperBoundTable ==
    /\ LookedUp("lookupImmUpperBound") =>
          /\ query[2].category = "HW_Category_IMM"
          /\ Succeeded(answer)
          /\ ValueOf(answer) \in {8, 31, 255}
          /\ (ValueOf(answer) = 31 <=> query[1] \in {"NI_AVX_Compare", "NI_AVX_CompareScalar"})
          /\ (ValueOf(answer) = 8 <=> query[1] \in Avx2GatherIds)
          /\ (ValueOf(answer) = 8 <=> isAVX2GatherIntrinsic(query[1]))
          /\ (ValueOf(answer) = 255 <=> query[1] \notin Avx2GatherIds \cup {"NI_AVX_Compare", "NI_AVX_CompareScalar"})
    /\ LookedUp("isAVX2GatherIntrinsic") =>
          /\ Succeeded(answer)
          /\ (ValueOf(answer) <=> query[1] \in Avx2GatherIds)

C17_Witness ==
    LookedUp("lookupImmUpperBound") /\ query[1] = "NI_AVX2_GatherMaskVector256"
        /\ answer = Returns(8) /\ isAVX2GatherIntrinsic(query[1])

\* the capabilities X64VersionOfIsa has a case for
HasX64Version ==
    {"InstructionSet_X86Base", "InstructionSet_SSE", "InstructionSet_SSE2", "InstructionSet_SSE3",
     "InstructionSet_SSSE3", "InstructionSet_SSE41", "InstructionSet_SSE42", "InstructionSet_AVX",
     "InstructionSet_AVX2", "InstructionSet_AVX512BW", "InstructionSet_AVX512BW_VL",
     "InstructionSet_AVX512CD", "InstructionSet_AVX512CD_VL", "InstructionSet_AVX512DQ",
     "InstructionSet_AVX512DQ_VL", "InstructionSet_AVX512F", "InstructionSet_AVX512F_VL",
     "InstructionSet_AVXVNNI", "InstructionSet_AES", "InstructionSet_BMI1", "InstructionSet_BMI2",
     "InstructionSet_FMA", "InstructionSet_LZCNT", "InstructionSet_PCLMULQDQ", "InstructionSet_POPCNT",
     "InstructionSet_X86Serialize"}

\* C18: X64VersionOfIsa is injective on the capabilities it gives a value
\* other than NONE for (no two of them share a 64-bit counterpart), and for
\* every other capability, NONE and ILLEGAL included, it returns NONE
\* without failing.
C18_X64VersionInjective ==
    LookedUp("X64VersionOfIsa") =>
        /\ Succeeded(answer)
        /\ (ValueOf(answer) # "InstructionSet_NONE" <=> query[1] \in HasX64Version)
        /\ (ValueOf(answer) # "InstructionSet_NONE" =>
               \A other \in InstructionSets \cup HasX64Version :
                   X64VersionOfIsa(other) = ValueOf(answer) => other = query[1])
        /\ (query[1] \in {"InstructionSet_NONE", "InstructionSet_ILLEGAL"} =>
               ValueOf(answer) = "InstructionSet_NONE")
        /\ Cardinality({X64VersionOfIsa(i) : i \in HasX64Version}) = Cardinality(HasX64Version)

C18_Witness ==
    LookedUp("X64VersionOfIsa") /\ query = <<"InstructionSet_AVX512F_VL">>
        /\ answer = Returns("InstructionSet_AVX512F_VL_X64")

\* the outcome of "f(lookup)": f of the inner call's value, behind the assert of the inner call if it has one
Applied(f(_), inner) == IF Succeeded(inner) THEN Returns(f(ValueOf(inner))) ELSE AssertThenReturns(f(ValueOf(inner)))

\* C19: lookupIsa("X64", e) = X64VersionOfIsa(lookupInstructionSet(e)),
\* lookupIsa("VL", e) = VLVersionOfIsa(lookupInstructionSet(e)), and for any
\* other class name n lookupIsa(n, e) = lookupInstructionSet(n) whatever e
\* is; VLVersionOfIsa gives a value only for AVX512BW, AVX512CD, AVX512DQ
\* and AVX512F and NONE otherwise; a null enclosing name with class name
\* "X64" or "VL" is an assertion failure.
C19_QualifiedLookup ==
    /\ LookedUp("lookupIsa") =>
          LET className          == query[1]
              enclosingClassName == query[2]
          IN  IF className = NullName
              THEN ~Succeeded(answer)
              ELSE IF className \in {"X64", "VL"} /\ enclosingClassName = NullName
              THEN ~Succeeded(answer)
              ELSE IF className = "X64"
              THEN answer = Applied(X64VersionOfIsa, lookupInstructionSet(enclosingClassName))
              ELSE IF className = "VL"
              THEN answer = Applied(VLVersionOfIsa, lookupInstructionSet(enclosingClassName))
              ELSE answer = lookupInstructionSet(className)
    /\ LookedUp("VLVersionOfIsa") =>
          /\ Succeeded(answer)
          /\ ValueOf(answer) =
                (CASE query[1] = "InstructionSet_AVX512BW" -> "InstructionSet_AVX512BW_VL"
                   [] query[1] = "InstructionSet_AVX512CD" -> "InstructionSet_AVX512CD_VL"
                   [] query[1] = "InstructionSet_AVX512DQ" -> "InstructionSet_AVX512DQ_VL"
                   [] query[1] = "InstructionSet_AVX512F" -> "InstructionSet_AVX512F_VL"
                   [] OTHER -> "InstructionSet_NONE")

C19_Witness ==
    LookedUp("lookupIsa") /\ query = <<"VL", "Avx512F">> /\ answer = Returns("InstructionSet_AVX512F_VL")

\* the class names lookupInstructionSet gives a capability for
RecognizedName(n) ==
    \/ n \in {"Aes", "Avx", "Avx2", "Avx512BW", "Avx512CD", "Avx512DQ", "Avx512F", "AvxVnni",
              "Sse", "Sse2", "Sse3", "Ssse3", "Sse41", "Sse42", "Bmi1", "Bmi2", "Pclmulqdq", "Popcnt",
              "Fma", "Lzcnt", "X86Base", "X86Serialize"}
    \/ \E prefix \in {"Vector128", "Vector256", "Vector512"} :
          Len(n) >= 9 /\ SubSeq(n, 1, 9) = prefix

\* lookupInstructionSet was called with a name that is not null and not recognized
UnrecognizedLookup ==
    LookedUp("lookupInstructionSet") /\ query[1] # NullName /\ ~RecognizedName(query[1])

\* C20 as the specification states it: for every non-null class name that is
\* not recognized lookupInstructionSet returns ILLEGAL and never asserts.
C20_Original_UnrecognizedIsIllegal ==
    UnrecognizedLookup => answer = Returns("InstructionSet_ILLEGAL")

\* C20 (amended): for every non-null class name that is not recognized and
\* is not "VL", whatever its first character, lookupInstructionSet returns
\* ILLEGAL without asserting; for the name "VL" it stops at an assert.
C20_UnrecognizedIsIllegalExceptVL ==
    UnrecognizedLookup =>
        IF query[1] = "VL"
        THEN ~Succeeded(answer)
        ELSE answer = Returns("InstructionSet_ILLEGAL")

C20_Witness ==
    UnrecognizedLookup /\ query = <<"Vector64">> /\ answer = Returns("InstructionSet_ILLEGAL")

\* lookupInstructionSet was called with the name "VL"
ResolvedVL == LookedUp("lookupInstructionSet") /\ query = <<"VL">>

\* the capability values that are not a sentinel
RealCapabilities == InstructionSets \ {"InstructionSet_NONE", "InstructionSet_ILLEGAL"}

\* C21 as the specification states it: resolving the name "VL" is flagged by
\* a fatal assertion and yields a distinguished outcome that differs from the
\* sentinel returned for unrecognized names, never a real capability.
C21_Original_VLHasDistinguishedOutcome ==
    ResolvedVL =>
        /\ ~Succeeded(answer)
        /\ ValueOf(answer) # "InstructionSet_ILLEGAL"
        /\ ValueOf(answer) \notin RealCapabilities

\* C21 (amended): resolving the name "VL" stops at a fatal assertion and is
\* never resolved to a real capability; the value returned behind the
\* assertion is InstructionSet_ILLEGAL, the sentinel of unrecognized names,
\* and lookupIsa("X64", "VL") stops at the same assertion with
\* X64VersionOfIsa of that value, NONE, behind it.
C21_VLAssertsThenIllegal ==
    /\ ResolvedVL => answer = AssertThenReturns("InstructionSet_ILLEGAL")
    /\ (LookedUp("lookupIsa") /\ query = <<"X64", "VL">>) =>
          answer = AssertThenReturns("InstructionSet_NONE")
    /\ (LookedUp("lookupInstructionSet") /\ ~Succeeded(answer)) => query[1] \in {"VL", NullName}

C21_Witness ==
    ResolvedVL /\ ~Succeeded(answer) /\ ValueOf(answer) = "InstructionSet_ILLEGAL"

\* BMI1, BMI2, LZCNT and X86Base
ScalarBases ==
    {"InstructionSet_BMI1", "InstructionSet_BMI2", "InstructionSet_LZCNT", "InstructionSet_X86Base"}

\* the scalar capabilities the claim names: the four bases and their 64-bit counterparts
ScalarCapabilities == ScalarBases \cup {X64VersionOfIsa(c) : c \in ScalarBases}

\* isScalarIsa answered for exactly the named capabilities
ScalarExactly ==
    LookedUp("isScalarIsa") =>
        /\ Succeeded(answer)
        /\ ValueOf(answer) = (query[1] \in ScalarCapabilities)
        /\ query[1] \in {"InstructionSet_POPCNT", "InstructionSet_POPCNT_X64"} => ~ValueOf(answer)

\* C24 as the specification states it: isScalarIsa is true exactly for BMI1,
\* BMI2, LZCNT, X86Base and their 64-bit counterparts, and for every scalar
\* c the capability X64VersionOfIsa(c) is scalar too.
C24_Original_ScalarClosedUnderX64 ==
    /\ ScalarExactly
    /\ (LookedUp("isScalarIsa") /\ ValueOf(answer)) => isScalarIsa(X64VersionOfIsa(query[1]))

\* C24 (amended): isScalarIsa is true exactly for BMI1, BMI2, LZCNT, X86Base
\* and their 64-bit counterparts, false for POPCNT, POPCNT_X64 and every other
\* capability; X64VersionOfIsa maps each of the four base scalar capabilities
\* to a scalar one, and each 64-bit scalar capability to NONE, which is not.
C24_ScalarBasesHaveScalarX64 ==
    /\ ScalarExactly
    /\ Cardinality(ScalarCapabilities) = 8
    /\ (LookedUp("isScalarIsa") /\ query[1] \in ScalarBases) =>
          ValueOf(answer) /\ isScalarIsa(X64VersionOfIsa(query[1]))
    /\ (LookedUp("isScalarIsa") /\ query[1] \in ScalarCapabilities \ ScalarBases) =>
          /\ ValueOf(answer)
          /\ X64VersionOfIsa(query[1]) = "InstructionSet_NONE"
          /\ ~isScalarIsa(X64VersionOfIsa(query[1]))

C24_Witness ==
    LookedUp("isScalarIsa") /\ query = <<"InstructionSet_LZCNT_X64">> /\ answer = Returns(TRUE)

\* C27: whenever lookupIsa returns a value other than NONE and ILLEGAL,
\* isFullyImplementedIsa of that value is true; isFullyImplementedIsa is
\* false for NONE, for ILLEGAL and for a capability outside its allow-list.
C27_LookedUpIsaIsFullyImplemented ==
    /\ (LookedUp("lookupIsa") /\ Succeeded(answer)
          /\ ValueOf(answer) \notin {"InstructionSet_NONE", "InstructionSet_ILLEGAL"}) =>
          isFullyImplementedIsa(ValueOf(answer))
    /\ (LookedUp("isFullyImplementedIsa")
          /\ query[1] \in {"InstructionSet_NONE", "InstructionSet_ILLEGAL", "InstructionSet_MOVBE"}) =>
          answer = Returns(FALSE)

C27_Witness ==
    /\ LookedUp("lookupIsa")
    /\ query = <<"VL", "Avx512F">>
    /\ answer = Returns("InstructionSet_AVX512F_VL")
    /\ isFullyImplementedIsa(ValueOf(answer))

\* AVX512F_VL_X64, AVX512BW_VL_X64, AVX512CD_VL_X64 and AVX512DQ_VL_X64
VLX64Capabilities ==
    {"InstructionSet_AVX512F_VL_X64", "InstructionSet_AVX512BW_VL_X64",
     "InstructionSet_AVX512CD_VL_X64", "InstructionSet_AVX512DQ_VL_X64"}

\* the 64-bit counterparts X64VersionOfIsa gives for the VL capabilities VLVersionOfIsa gives
X64OfVLVersions ==
    {X64VersionOfIsa(VLVersionOfIsa(isa)) : isa \in InstructionSets} \ {"InstructionSet_NONE"}

\* C28: no call of lookupIsa returns one of the four AVX512*_VL_X64
\* capabilities, although X64VersionOfIsa maps the four VL capabilities to
\* them and isFullyImplementedIsa lists them; with class name "X64" and an
\* unrecognized enclosing name (one that is neither a recognized name nor the
\* known-but-unimplemented "VL") the result is NONE, not ILLEGAL.
C28_NoVLX64FromLookupIsa ==
    /\ LookedUp("lookupIsa") => ValueOf(answer) \notin VLX64Capabilities
    /\ X64OfVLVersions = VLX64Capabilities
    /\ \A isa \in VLX64Capabilities : isFullyImplementedIsa(isa)
    /\ (LookedUp("lookupIsa") /\ query[1] = "X64" /\ query[2] \notin {NullName, "VL"}
          /\ ~RecognizedName(query[2])) =>
          answer = Returns("InstructionSet_NONE")

C28_Witness ==
    /\ LookedUp("lookupIsa")
    /\ query = <<"X64", "Avx3">>
    /\ answer = Returns("InstructionSet_NONE")

\* the parts of a FloatComparisonMode name: Ordered or Unordered, the relation, Signaling or NonSignaling
IsOrderedMode(p) == SubSeq(p, 1, 7) = "Ordered"

IsNonSignalingMode(p) == Len(p) >= 12 /\ SubSeq(p, Len(p) - 11, Len(p)) = "NonSignaling"

RelationOf(p) ==
    SubSeq(p, IF IsOrderedMode(p) THEN 8 ELSE 10, Len(p) - (IF IsNonSignalingMode(p) THEN 12 ELSE 9))

\* the relation that holds of (op2, op1) where r holds of (op1, op2)
SwappedRelation(r) ==
    CASE r = "LessThan" -> "GreaterThan"
      [] r = "GreaterThan" -> "LessThan"
      [] r = "LessThanOrEqual" -> "GreaterThanOrEqual"
      [] r = "GreaterThanOrEqual" -> "LessThanOrEqual"
      [] r = "NotLessThan" -> "NotGreaterThan"
      [] r = "NotGreaterThan" -> "NotLessThan"
      [] r = "NotLessThanOrEqual" -> "NotGreaterThanOrEqual"
      [] r = "NotGreaterThanOrEqual" -> "NotLessThanOrEqual"
      [] OTHER -> r

\* C29: for each of the 32 FloatComparisonMode values p the swapped-args
\* lookup keeps the signaling/non-signaling attribute and the
\* ordered/unordered attribute of p; the only change is in the relation,
\* LessThan <-> GreaterThan, LessThanOrEqual <-> GreaterThanOrEqual,
\* NotLessThan <-> NotGreaterThan, NotLessThanOrEqual <-> NotGreaterThanOrEqual.
C29_SwapKeepsSignalingAndOrdering ==
    LookedUp("lookupFloatComparisonModeForSwappedArgs") =>
        /\ Succeeded(answer)
        /\ IsNonSignalingMode(ValueOf(answer)) = IsNonSignalingMode(query[1])
        /\ IsOrderedMode(ValueOf(answer)) = IsOrderedMode(query[1])
        /\ RelationOf(ValueOf(answer)) = SwappedRelation(RelationOf(query[1]))

C29_Witness ==
    /\ LookedUp("lookupFloatComparisonModeForSwappedArgs")
    /\ query = <<"UnorderedNotLessThanOrEqualNonSignaling">>
    /\ answer = Returns("UnorderedNotGreaterThanOrEqualNonSignaling")

\* impSpecialIntrinsic returned from the case of Multiply and op_Multiply
MultiplyReturned == Returned /\ intrinsic \in CaseLabels("NI_Vector128_Multiply")

\* the node the binary arithmetic cases build: first argument, then second
IsBinOpNode(node, oper) ==
    /\ node.k = "gtNewSimdBinOpNode"
    /\ node.oper = oper
    /\ Len(node.ops) = 2
    /\ node.ops[1].id = SourceArg(1).id
    /\ node.ops[2].id = SourceArg(2).id

\* C22: Multiply and op_Multiply decline with nothing popped for the
\* byte-sized element kinds at every width and capability set; for the 64-bit
\* integer kinds they return a node only if AVX512DQ_VL is available; for the
\* 2- and 4-byte integer kinds and the floating-point kinds they return a
\* multiply node, the integer kinds of a 32-byte vector only with AVX2.
C22_MultiplyByElementKind ==
    /\ (MultiplyReturned /\ varTypeIsByte(simdBaseType)) =>
          Declined /\ esStack = stackBefore /\ trace = <<>>
    /\ (MultiplyReturned /\ varTypeIsLong(simdBaseType) /\ Specialized) =>
          "InstructionSet_AVX512DQ_VL" \in isaFlags
    /\ (MultiplyReturned /\ ~varTypeIsByte(simdBaseType) /\ ~varTypeIsLong(simdBaseType)) =>
          IF varTypeIsFloating(simdBaseType) \/ simdSize # 32 \/ "InstructionSet_AVX2" \in isaFlags
          THEN Specialized /\ IsBinOpNode(retNode, "GT_MUL") /\ PoppedExactly(2)
          ELSE Declined /\ esStack = stackBefore
    /\ (MultiplyReturned /\ Specialized) => IsBinOpNode(retNode, "GT_MUL") /\ PoppedExactly(2)

C22_Witness ==
    /\ MultiplyReturned
    /\ simdBaseType = "TYP_ULONG"
    /\ simdSize = 32
    /\ Specialized
    /\ "InstructionSet_AVX512DQ_VL" \in isaFlags

\* impSpecialIntrinsic returned from the case of Divide and op_Division
DivideReturned == Returned /\ intrinsic \in CaseLabels("NI_Vector128_Divide")

\* C23: Divide and op_Division return a node if and only if the element kind
\* is float or double; for every integer element kind they decline with
\* nothing popped, whatever the capability set.
C23_DivideOnlyFloatingPoint ==
    /\ DivideReturned => (Specialized <=> simdBaseType \in {"TYP_FLOAT", "TYP_DOUBLE"})
    /\ (DivideReturned /\ Specialized) => IsBinOpNode(retNode, "GT_DIV") /\ PoppedExactly(2)
    /\ (DivideReturned /\ varTypeIsIntegral(simdBaseType)) =>
          Declined /\ esStack = stackBefore /\ trace = <<>>

C23_Witness ==
    /\ DivideReturned
    /\ simdBaseType = "TYP_ULONG"
    /\ simdSize = 32
    /\ "InstructionSet_AVX2" \in isaFlags
    /\ Declined
    /\ esStack = stackBefore

\* impSpecialIntrinsic returned from the case of Shuffle
ShuffleReturned == Returned /\ intrinsic \in CaseLabels("NI_Vector128_Shuffle")

\* the checks of the Shuffle case all pass: constant indices, the capability
\* of the width, no lane crossing where it matters
ShuffleGatesPass ==
    /\ IsVectorConst(stackBefore[Len(stackBefore)])
    /\ IF simdSize = 32
       THEN /\ "InstructionSet_AVX2" \in isaFlags
            /\ varTypeIsSmallInt(simdBaseType) =>
                  ~ShuffleCrossLane(stackBefore[Len(stackBefore)], 0, simdSize \div genTypeSize(simdBaseType))
       ELSE varTypeIsSmallInt(simdBaseType) => "InstructionSet_SSSE3" \in isaFlags

\* C30: for Shuffle with three arguments impSpecialIntrinsic returns null and
\* pops nothing, for every width, element kind, index vector and capability
\* set, also when the indices are constant and every gate passes; a shuffle
\* node is built only for the two-argument form.
C30_ThreeArgumentShuffleDeclines ==
    /\ (ShuffleReturned /\ numArgs = 3) => Declined /\ esStack = stackBefore /\ trace = <<>>
    /\ (ShuffleReturned /\ Specialized) => numArgs = 2 /\ retNode.k = "gtNewSimdShuffleNode"
    /\ (ShuffleReturned /\ numArgs = 2 /\ ShuffleGatesPass) => Specialized /\ PoppedExactly(2)

C30_Witness ==
    /\ ShuffleReturned
    /\ numArgs = 3
    /\ simdSize = 32
    /\ simdBaseType = "TYP_SHORT"
    /\ ShuffleGatesPass
    /\ Declined
    /\ esStack = stackBefore

\* the cases AsVector, AsVector128, AsVector256 and AsVector512
RedispatchingIds ==
    CaseLabels("NI_Vector128_AsVector") \cup CaseLabels("NI_Vector128_AsVector128")
        \cup CaseLabels("NI_Vector256_AsVector") \cup CaseLabels("NI_Vector512_AsVector")

\* the ToVector256, ToVector512, GetLower and GetLower128 identifiers
RedispatchTargets ==
    {"NI_Vector128_ToVector256", "NI_Vector128_ToVector512", "NI_Vector256_ToVector512",
     "NI_Vector256_GetLower", "NI_Vector512_GetLower", "NI_Vector512_GetLower128"}

\* C26: every call of impSpecialIntrinsic returns having called itself at most
\* once: only the cases AsVector, AsVector128, AsVector256 and AsVector512
\* re-dispatch, only to a ToVector256, ToVector512, GetLower or GetLower128
\* identifier, and the case of such an identifier does not re-dispatch, for
\* every vector register length and capability set.
C26_AtMostOneRedispatch ==
    Returned =>
        /\ Len(nested) <= 1
        /\ nested # <<>> => intrinsic \in RedispatchingIds /\ nested[1] \in RedispatchTargets
        /\ intrinsic \in RedispatchTargets => nested = <<>>
        /\ RedispatchTargets \cap RedispatchingIds = {}

C26_Witness ==
    /\ Returned
    /\ intrinsic = "NI_Vector512_AsVector"
    /\ regLen = XMM_REGSIZE_BYTES
    /\ "InstructionSet_AVX512F" \in isaFlags
    /\ nested = <<"NI_Vector512_GetLower128">>
    /\ Specialized

\* C25: whenever impSpecialIntrinsic returns a node the stack is what it was
\* without its sig->numArgs topmost operands: the depth has decreased by
\* exactly numArgs and the operands below are untouched; so for the cases
\* without arguments, the Load forms of one and two arguments, the Store forms
\* of two and three arguments and the As-vector cases that re-dispatch.
C25_SpecializedConsumesNumArgs ==
    Specialized =>
        /\ Len(esStack) = Len(stackBefore) - numArgs
        /\ esStack = SubSeq(stackBefore, 1, Len(stackBefore) - numArgs)

C25_Witness ==
    /\ Specialized
    /\ intrinsic \in CaseLabels("NI_Vector128_Store")
    /\ numArgs = 3
    /\ Len(stackBefore) > 3
    /\ esStack = SubSeq(stackBefore, 1, Len(stackBefore) - 3)
=============================================================================
